---- MODULE Spec2Model ----
(***************************************************************************)
(* fvf: the recursive Vault walker of package search (WalkVault, recurse,  *)
(* handleLeaf, ReadSecret, NameOrRegexMatch) and mount discovery           *)
(* (ListMountsWithFallback).                                               *)
(*                                                                         *)
(* Go strings are sequences of one-character strings, so that prefix,      *)
(* suffix, substring, case folding and byte-wise comparison are computed   *)
(* and not assumed.                                                        *)
(***************************************************************************)
EXTENDS Integers, Sequences, FiniteSets, TLC

(***************************************************************************)
(* Bounds of the model.                                                    *)
(***************************************************************************)
\* longest "keys" sequence a list response carries
MaxKeys == 2
\* deepest level (below the start path) at which a listing still names subtrees
MaxTreeDepth == 1
\* largest maxDepth argument tried (0 = unlimited)
MaxDepthArg == 2

Nil == [t |-> "nil"]

(***************************************************************************)
(* Strings.                                                                *)
(***************************************************************************)
Slash == "/"

\* byte values of the characters that occur in logical paths
Ord ==
  [c \in {" ", "/", "C", "a", "b", "c", "e", "k", "o", "r", "s", "t", "v", "x", "y"} |->
     CASE c = " " -> 32
       [] c = "/" -> 47
       [] c = "C" -> 67
       [] c = "a" -> 97
       [] c = "b" -> 98
       [] c = "c" -> 99
       [] c = "e" -> 101
       [] c = "k" -> 107
       [] c = "o" -> 111
       [] c = "r" -> 114
       [] c = "s" -> 115
       [] c = "t" -> 116
       [] c = "v" -> 118
       [] c = "x" -> 120
       [] c = "y" -> 121]

\* Go's s < t on strings: byte-wise lexicographic, a proper prefix is smaller
RECURSIVE StrLess(_, _)
StrLess(s, t) ==
  IF t = <<>> THEN FALSE
  ELSE IF s = <<>> THEN TRUE
  ELSE IF Ord[Head(s)] # Ord[Head(t)] THEN Ord[Head(s)] < Ord[Head(t)]
  ELSE StrLess(Tail(s), Tail(t))

HasPrefix(s, p) == Len(s) >= Len(p) /\ SubSeq(s, 1, Len(p)) = p
HasSuffix(s, p) == Len(s) >= Len(p) /\ SubSeq(s, Len(s) - Len(p) + 1, Len(s)) = p
TrimPrefix(s, p) == IF HasPrefix(s, p) THEN SubSeq(s, Len(p) + 1, Len(s)) ELSE s
TrimSuffix(s, p) == IF HasSuffix(s, p) THEN SubSeq(s, 1, Len(s) - Len(p)) ELSE s
Contains(s, sub) ==
  \E i \in 0..(Len(s) - Len(sub)) : SubSeq(s, i + 1, i + Len(sub)) = sub

ToLowerCh(c) ==
  CASE c = "A" -> "a"
    [] c = "B" -> "b"
    [] c = "C" -> "c"
    [] c = "S" -> "s"
    [] c = "X" -> "x"
    [] OTHER -> c
ToLower(s) == [i \in 1..Len(s) |-> ToLowerCh(s[i])]

\* strings.Join(xs, "/")
RECURSIVE JoinSlash(_)
JoinSlash(xs) ==
  IF xs = <<>> THEN <<>>
  ELSE IF Len(xs) = 1 THEN xs[1]
  ELSE xs[1] \o <<Slash>> \o JoinSlash(Tail(xs))

\* strings.Split(s, "/")
RECURSIVE SplitSlashAcc(_, _, _)
SplitSlashAcc(s, cur, acc) ==
  IF s = <<>> THEN Append(acc, cur)
  ELSE IF Head(s) = Slash THEN SplitSlashAcc(Tail(s), <<>>, Append(acc, cur))
  ELSE SplitSlashAcc(Tail(s), Append(cur, Head(s)), acc)
SplitSlash(s) == SplitSlashAcc(s, <<>>, <<>>)

\* index of the first "/" in s, 0 when there is none
FirstSlash(s) ==
  IF \E i \in 1..Len(s) : s[i] = Slash
  THEN CHOOSE i \in 1..Len(s) : s[i] = Slash /\ \A j \in 1..(i - 1) : s[j] # Slash
  ELSE 0

RECURSIVE DropEmpty(_)
DropEmpty(xs) ==
  IF xs = <<>> THEN <<>>
  ELSE IF Head(xs) = <<>> THEN DropEmpty(Tail(xs))
  ELSE <<Head(xs)>> \o DropEmpty(Tail(xs))

joinNonEmpty(elem) == JoinSlash(DropEmpty(elem))

\* path.Clean: resolve the segments of p left to right
RECURSIVE CleanSegs(_, _, _)
CleanSegs(segs, acc, rooted) ==
  IF segs = <<>> THEN acc
  ELSE LET e == Head(segs) IN
    IF e = <<>> \/ e = <<".">> THEN CleanSegs(Tail(segs), acc, rooted)
    ELSE IF e = <<".", ".">> THEN
      IF acc # <<>> /\ acc[Len(acc)] # <<".", ".">>
      THEN CleanSegs(Tail(segs), SubSeq(acc, 1, Len(acc) - 1), rooted)
      ELSE IF rooted THEN CleanSegs(Tail(segs), acc, rooted)
      ELSE CleanSegs(Tail(segs), Append(acc, e), rooted)
    ELSE CleanSegs(Tail(segs), Append(acc, e), rooted)

Clean(p) ==
  LET rooted == p # <<>> /\ p[1] = Slash
      body == JoinSlash(CleanSegs(SplitSlash(p), <<>>, rooted))
      res == IF rooted THEN <<Slash>> \o body ELSE body
  IN IF res = <<>> THEN <<".">> ELSE res

\* path.Base
Base(p) ==
  IF p = <<>> THEN <<".">>
  ELSE LET segs == DropEmpty(SplitSlash(p))
       IN IF segs = <<>> THEN <<Slash>> ELSE segs[Len(segs)]

SplitMount(p0) ==
  LET p == TrimPrefix(p0, <<Slash>>)
      i == FirstSlash(p)
      mnt == IF i = 0 THEN p ELSE SubSeq(p, 1, i - 1)
      rest == IF i = 0 THEN <<>> ELSE SubSeq(p, i + 1, Len(p))
  IN [mount |-> mnt, inner |-> TrimPrefix(rest, <<Slash>>)]

\* path.Clean left out
ListAPIPathNoClean(mount, inner, isKv2) ==
  IF isKv2
  THEN joinNonEmpty(<<mount, <<"m","e","t","a","d","a","t","a">>, inner>>)
  ELSE joinNonEmpty(<<mount, inner>>)

ListAPIPath(mount, inner, isKv2) ==
  IF isKv2
  THEN Clean(joinNonEmpty(<<mount, <<"m","e","t","a","d","a","t","a">>, inner>>))
  ELSE Clean(joinNonEmpty(<<mount, inner>>))

ReadAPIPath(mount, inner, isKv2) ==
  IF isKv2
  THEN Clean(joinNonEmpty(<<mount, <<"d","a","t","a">>, inner>>))
  ELSE Clean(joinNonEmpty(<<mount, inner>>))

(***************************************************************************)
(* Values: Go nil is Nil; JSON-like values are tagged records; a Go map is *)
(* JMap of a set of [k, v] entries with distinct keys; *vault.Secret is a  *)
(* record with its Data map (Nil for a nil map).                           *)
(***************************************************************************)
JStr(s) == [t |-> "str", s |-> s]
JNum(n) == [t |-> "num", n |-> n]
JList(l) == [t |-> "list", l |-> l]
JMap(m) == [t |-> "map", m |-> m]
Secret(data) == [t |-> "secret", Data |-> data]

\* m[k] with the comma-ok form: Nil map and missing key give no entry
HasKey(m, k) == m # Nil /\ \E e \in m.m : e.k = k
Lookup(m, k) == IF HasKey(m, k) THEN (CHOOSE e \in m.m : e.k = k).v ELSE Nil

\* context.DeadlineExceeded
DeadlineExceeded == [t |-> "err", kind |-> "deadline"]
RemoteErrors ==
  {[t |-> "err", kind |-> "permission"], [t |-> "err", kind |-> "transport"], DeadlineExceeded}
Canceled == [t |-> "err", kind |-> "canceled"]
\* the protocol error without the list path
ErrUnexpectedListNoPath(listPath) == [t |-> "err", kind |-> "unexpected list response", at |-> <<>>]

ErrUnexpectedList(listPath) == [t |-> "err", kind |-> "unexpected list response", at |-> listPath]
\* a missing record reported as success
ErrNoDataAbsent(readPath) == Nil
ErrNoData(readPath) == [t |-> "err", kind |-> "no data", at |-> readPath]

FoundItem(p, v) == [Path |-> p, Value |-> v]

VARIABLES
  start, kv2, maxDepth, matcher, withValues,  \* arguments of the WalkVault call
  CurrentNamePart,                            \* package variable set by SetNamePart
  ctxDone,                                    \* ctx.Done() is closed
  stack,                                      \* active recurse/handleLeaf calls, innermost first
  out,                                        \* *out of recurse
  pc,                                         \* "walk" while WalkVault runs, "done" after it returned
  ret,                                        \* what WalkVault returned
  calls,                                      \* history: remote calls made, with their responses
  matched,                                    \* history: NameOrRegexMatch verdict per handled leaf
  cancelledMid,                               \* history: ctx was cancelled with a child still unprocessed
  mpc,                                        \* where ListMountsWithFallback stands
  primaryErr,                                 \* err of the primary mount listing
  root,                                       \* root of the secondary response, unwrapped
  mountsOut,                                  \* out of ListMountsWithFallback
  todo,                                       \* keys of root the final range loop has not visited yet
  mountsRet,                                  \* what ListMountsWithFallback returned
  mcalls,                                     \* the mount-discovery calls made so far, with their answers
  detectRet,                                  \* what DetectKV2 returned
  opts,                                       \* the flags -kv1, -force-kv2 and -kv2
  client,                                     \* "client", or "nil" when none is available
  mountOptions,                               \* Options of the mount given to decideKV2ForMountMeta
  decideRet,                                  \* what decideKV2ForPath or decideKV2ForMountMeta returned
  tree,                                       \* the remote tree when it is fixed beforehand, else Nil
  limited,                                    \* the result of the depth-limited walk kept for comparison
  cargs,                                      \* opts.startPath and opts.paths
  cpc,                                        \* where collectItems is: "idle" when it does not run
  pendingPaths,                               \* the start paths collectForPaths has not walked yet
  pendingMounts,                              \* the mounts collectAcrossAllMounts has not visited yet
  allItems,                                   \* items of collectForPaths / collectAcrossAllMounts
  collectRet,                                 \* what collectItems returned
  fetchPc,                                    \* where the lazy fetcher is: "idle" when it does not run
  fattempts,                                  \* the attempts of the fetcher, each with its request context
  fetchRet,                                   \* what the fetcher returned
  Items, Filtered, Query, Cursor, Offset,     \* UIState: the data part
  MouseEnabled,                               \* UIState.MouseEnabled
  screenRows,                                 \* maxRows of the screen: h - contentTop - 1
  uiPc,                                       \* the event loop: "idle", "filter", "filtered", "run", "panic", "quit"
  lastEvent,                                  \* the event the loop handled last
  cli,                                        \* the command line: flags given, len(args), stdout a terminal
  mainOpts,                                   \* options after parseFlagsWithArgs
  mainPc,                                     \* where main is: "idle" when it does not run
  stdout,                                     \* what printItems wrote
  secs,                                       \* the argument of formatTTLHuman
  lastTTLDisp,                                \* the text formatTTLHuman returned
  now,                                        \* the clock, in seconds
  lastActivity,                               \* lastActivity of runInteractiveStream
  lastInput,                                  \* when the user last pressed a key or used the mouse
  activityCh,                                 \* number of values in activityCh (capacity 1)
  quitCh,                                     \* "open" or "closed"
  shouldQuit,                                 \* the atomic flag of runStreamImpl
  monitorPc,                                  \* the idle monitor: "idle", "run", "returned"
  lastCheck,                                  \* the last periodic check of the monitor
  recvPc,                                     \* the item receiver of runStreamImpl: "idle", "wait", "appended", "queried"
  recvIt,                                     \* it of the receiver's loop body
  recvQ,                                      \* q of the receiver's loop body
  wgPc,                                       \* the walker goroutine of runInteractiveStream: "idle" when it does not run
  wgErr,                                      \* err of the walker goroutine
  wgTodo,                                     \* the mounts or paths its loop has not visited yet
  wgLoop,                                     \* the branch it took: "mounts", "paths" or "single"
  itemsChan,                                  \* itemsCh: values buffered, closed or not
  errChan,                                    \* errCh: values buffered, closed or not
  chanLog,                                    \* history: sends, closes and walk returns of the goroutine
  sessPc,                                     \* runInteractiveStream itself: "ui", "cancelled", "returned"
  PreviewCache,                               \* UIState.PreviewCache: entries path, text
  PreviewErr,                                 \* UIState.PreviewErr: entries path, error
  PrintValues,                                \* printValues of runStreamImpl: previews are enabled
  hasFetcher,                                 \* fetcher != nil
  enterOut,                                   \* out of HandleKey's Enter branch, before it is fitted to the preview mode
  fetchLog                                    \* history: the calls of fetcher, with what they returned

collectVars == <<cargs, cpc, pendingPaths, pendingMounts, allItems, collectRet>>
fetchVars == <<fetchPc, fattempts, fetchRet>>
uiVars == <<Items, Filtered, Query, Cursor, Offset, MouseEnabled, screenRows, uiPc, lastEvent>>
ttlVars == <<secs, lastTTLDisp>>
mainVars == <<cli, mainOpts, mainPc, stdout, ttlVars>>
idleVars == <<now, lastActivity, lastInput, activityCh, quitCh, shouldQuit, monitorPc, lastCheck>>
streamVars == <<recvPc, recvIt, recvQ>>
chanVars == <<wgPc, wgErr, wgTodo, wgLoop, itemsChan, errChan, chanLog, sessPc>>
previewVars == <<PreviewCache, PreviewErr, PrintValues, hasFetcher, enterOut, fetchLog>>
sessionVars == <<streamVars, chanVars, previewVars>>
tuiVars == <<uiVars, mainVars, idleVars, sessionVars>>
fixed == <<tree, limited, collectVars, fetchVars, tuiVars>>
params == <<start, kv2, maxDepth, matcher, withValues, CurrentNamePart, fixed>>
walkVars == <<start, kv2, maxDepth, matcher, withValues, CurrentNamePart, fixed,
              ctxDone, stack, out, pc, ret, calls, matched, cancelledMid>>
decideVars == <<opts, client, mountOptions, decideRet>>
mountVars == <<mpc, primaryErr, root, mountsOut, todo, mountsRet, mcalls, detectRet, decideVars>>
vars == <<walkVars, mountVars>>

(***************************************************************************)
(* Filter predicate.                                                       *)
(***************************************************************************)
\* a compiled pattern is modelled by the unanchored literal it searches for
Regexp(lit) == [t |-> "regexp", lit |-> lit]
MatchString(m, s) == Contains(s, m.lit)

nameMatch(base) ==
  IF CurrentNamePart = <<>> THEN FALSE
  ELSE Contains(ToLower(base), ToLower(CurrentNamePart))

\* both filters required instead of either
NameOrRegexMatchAnd(baseName, logicalPath, m) ==
  LET nameProvided == CurrentNamePart # <<>>
      regexProvided == m # Nil
  IN CASE ~nameProvided /\ ~regexProvided -> TRUE
       [] nameProvided /\ ~regexProvided -> nameMatch(baseName)
       [] ~nameProvided /\ regexProvided -> MatchString(m, logicalPath)
       [] OTHER -> nameMatch(baseName) /\ MatchString(m, logicalPath)

NameOrRegexMatch(baseName, logicalPath, m) ==
  LET nameProvided == CurrentNamePart # <<>>
      regexProvided == m # Nil
  IN CASE ~nameProvided /\ ~regexProvided -> TRUE
       [] nameProvided /\ ~regexProvided -> nameMatch(baseName)
       [] ~nameProvided /\ regexProvided -> MatchString(m, logicalPath)
       [] OTHER -> nameMatch(baseName) \/ MatchString(m, logicalPath)

(***************************************************************************)
(* Value reader.  resp is what logical.ReadWithContext returned.           *)
(***************************************************************************)
\* a v2 record without a nested mapping refused
ReadSecretStrict(resp, mount, inner, isKv2) ==
  LET readPath == ReadAPIPath(mount, inner, isKv2)
      sec == resp.sec
  IN IF resp.err # Nil THEN [val |-> Nil, err |-> resp.err]
     ELSE IF sec = Nil THEN [val |-> Nil, err |-> ErrNoData(readPath)]
     ELSE IF isKv2 THEN
       IF Lookup(sec.Data, "data").t = "map"
       THEN [val |-> Lookup(sec.Data, "data"), err |-> Nil]
       ELSE [val |-> Nil, err |-> ErrNoData(readPath)]
     ELSE [val |-> sec.Data, err |-> Nil]

ReadSecret(resp, mount, inner, isKv2) ==
  LET readPath == ReadAPIPath(mount, inner, isKv2)
      sec == resp.sec
  IN IF resp.err # Nil THEN [val |-> Nil, err |-> resp.err]
     ELSE IF sec = Nil THEN [val |-> Nil, err |-> ErrNoData(readPath)]
     ELSE IF isKv2 THEN
       IF ~HasKey(sec.Data, "data") \/ Lookup(sec.Data, "data") = Nil
       THEN [val |-> JMap({}), err |-> Nil]
       ELSE IF Lookup(sec.Data, "data").t = "map"
       THEN [val |-> Lookup(sec.Data, "data"), err |-> Nil]
       ELSE [val |-> JMap({}), err |-> Nil]
     ELSE [val |-> sec.Data, err |-> Nil]

(***************************************************************************)
(* sort.Slice(out, Path <): insertion into an ascending sequence.          *)
(***************************************************************************)
RECURSIVE InsertItem(_, _)
InsertItem(it, sorted) ==
  IF sorted = <<>> THEN <<it>>
  ELSE IF StrLess(it.Path, Head(sorted).Path) THEN <<it>> \o sorted
  ELSE <<Head(sorted)>> \o InsertItem(it, Tail(sorted))

\* the sort left out
SortItemsNone(items) == items

RECURSIVE SortItems(_)
SortItems(items) ==
  IF items = <<>> THEN <<>> ELSE InsertItem(Head(items), SortItems(Tail(items)))

(***************************************************************************)
(* The remote service: what ListWithContext and ReadWithContext may        *)
(* answer.  A response is chosen when the call is made and logged in       *)
(* calls; no path is listed or read twice within one walk.                 *)
(***************************************************************************)
LeafKeys == {<<"a">>, <<"C">>}
DirKeys == {<<"b", Slash>>}

RECURSIVE SeqsNoDup(_, _)
SeqsNoDup(S, n) ==
  IF n = 0 THEN {<<>>}
  ELSE LET shorter == SeqsNoDup(S, n - 1)
       IN shorter \cup {Append(q, x) : q \in shorter, x \in S}

NoDup(q) == \A i, j \in 1..Len(q) : i # j => q[i] # q[j]

\* key sequences of a listing at the given depth below the start path
KeySeqs(depth) ==
  LET ks == IF depth < MaxTreeDepth THEN LeafKeys \cup DirKeys ELSE LeafKeys
  IN {q \in SeqsNoDup(ks, MaxKeys) : NoDup(q)}

Resp(sec, err) == [sec |-> sec, err |-> err]

ListResponses(depth) ==
  {Resp(Nil, e) : e \in RemoteErrors}
    \cup {Resp(Nil, Nil), Resp(Secret(Nil), Nil)}
    \cup {Resp(Secret(JMap({[k |-> "other", v |-> JNum(1)]})), Nil)}
    \cup {Resp(Secret(JMap({[k |-> "keys", v |-> JList([i \in 1..Len(q) |-> JStr(q[i])])]})), Nil) :
            q \in KeySeqs(depth)}

SecretDatas ==
  { JMap({[k |-> "data", v |-> JMap({[k |-> "a", v |-> JStr(<<"b">>)]})]}),
    JMap({[k |-> "oops", v |-> JNum(1)]}) }

ReadResponses ==
  {Resp(Nil, e) : e \in RemoteErrors}
    \cup {Resp(Nil, Nil)}
    \cup {Resp(Secret(d), Nil) : d \in SecretDatas}

(***************************************************************************)
(* Walker.  A frame is one active call: pc "list" is recurse before its    *)
(* list call, "loop" is recurse inside `for _, k := range rawKeys` with    *)
(* keys the children not yet started, "leaf" is handleLeaf before it runs. *)
(* late (history) tells that the loop iteration the call belongs to began  *)
(* when ctx was already done.                                              *)
(***************************************************************************)
Frame(inner, depth, fpc, keys, late) ==
  [inner |-> inner, depth |-> depth, pc |-> fpc, keys |-> keys, late |-> late]

mount == SplitMount(start).mount

\* how many segments inner lies below the start path
TreeLevel(inner) == Len(DropEmpty(SplitSlash(inner))) - Len(DropEmpty(SplitSlash(SplitMount(start).inner)))

\* what was collected handed back next to the error
WalkVaultReturnPartial(o, err) == [items |-> SortItems(o), err |-> err]

\* WalkVault's own return: nil items on error, sorted items otherwise
WalkVaultReturn(o, err) ==
  IF err # Nil THEN [items |-> Nil, err |-> err]
  ELSE [items |-> SortItems(o), err |-> Nil]

\* an error travels up through every `return err` to WalkVault
Fail(err) ==
  /\ stack' = <<>>
  /\ pc' = "done"
  /\ ret' = WalkVaultReturn(out, err)
  /\ out' = out

\* the innermost call returns nil; when it was the outermost, WalkVault returns
ReturnNil(newOut) ==
  /\ stack' = Tail(stack)
  /\ out' = newOut
  /\ IF Tail(stack) = <<>>
     THEN pc' = "done" /\ ret' = WalkVaultReturn(newOut, Nil)
     ELSE pc' = pc /\ ret' = ret

\* main does not run
MainIdle ==
  /\ cli = Nil
  /\ mainOpts = Nil
  /\ mainPc = "idle"
  /\ stdout = Nil
  /\ secs = 0
  /\ lastTTLDisp = Nil

\* the clock at 0, nothing sent on activityCh, quitCh open
MonitorAt(p) ==
  /\ now = 0
  /\ lastActivity = 0
  /\ lastInput = 0
  /\ activityCh = 0
  /\ quitCh = "open"
  /\ shouldQuit = FALSE
  /\ monitorPc = p
  /\ lastCheck = Nil

\* no goroutine of the interactive session runs
StreamIdle ==
  /\ recvPc = "idle"
  /\ recvIt = Nil
  /\ recvQ = <<>>

ChansIdle ==
  /\ wgPc = "idle"
  /\ wgErr = Nil
  /\ wgTodo = <<>>
  /\ wgLoop = "none"
  /\ itemsChan = [n |-> 0, closed |-> FALSE]
  /\ errChan = [buf |-> <<>>, closed |-> FALSE]
  /\ chanLog = <<>>
  /\ sessPc = "idle"

\* no preview was asked for: no fetcher, previews off, nothing cached
PreviewIdle ==
  /\ PreviewCache = {}
  /\ PreviewErr = {}
  /\ PrintValues = FALSE
  /\ hasFetcher = FALSE
  /\ enterOut = Nil
  /\ fetchLog = <<>>

SessionIdle == StreamIdle /\ ChansIdle /\ PreviewIdle

\* no terminal UI runs
TuiIdle ==
  /\ SessionIdle
  /\ MainIdle
  /\ MonitorAt("idle")
  /\ uiPc = "idle"
  /\ Items = <<>>
  /\ Filtered = <<>>
  /\ Query = <<>>
  /\ Cursor = 0
  /\ Offset = 0
  /\ MouseEnabled = FALSE
  /\ screenRows = 0
  /\ lastEvent = "none"

\* the lazy fetcher does not run
FetchIdle ==
  /\ fetchPc = "idle"
  /\ fattempts = <<>>
  /\ fetchRet = Nil

\* collectItems does not run
CollectIdle ==
  /\ cargs = Nil
  /\ cpc = "idle"
  /\ pendingPaths = <<>>
  /\ pendingMounts = {}
  /\ allItems = <<>>
  /\ collectRet = Nil

\* no mount discovery in progress
MountsIdle ==
  /\ mpc = "idle"
  /\ primaryErr = Nil
  /\ root = Nil
  /\ mountsOut = {}
  /\ todo = {}
  /\ mountsRet = Nil
  /\ mcalls = <<>>
  /\ detectRet = Nil
  /\ opts = [kv1 |-> FALSE, forceKV2 |-> FALSE, kv2 |-> FALSE]
  /\ client = "client"
  /\ mountOptions = Nil
  /\ decideRet = Nil

TypeOK ==
  /\ pc \in {"walk", "done", "read", "readDone", "idle"}
  /\ ctxDone \in BOOLEAN
  /\ maxDepth \in 0..MaxDepthArg

Init ==
  /\ start \in {<<"s">>, <<"s", Slash, "x">>}
  /\ kv2 \in BOOLEAN
  /\ maxDepth \in 0..MaxDepthArg
  /\ matcher \in {Nil, Regexp(<<"b">>)}
  /\ withValues \in BOOLEAN
  /\ CurrentNamePart \in {<<>>, <<"c">>}
  /\ ctxDone = FALSE
  /\ stack = <<Frame(SplitMount(start).inner, 0, "list", <<>>, FALSE)>>
  /\ out = <<>>
  /\ pc = "walk"
  /\ ret = Nil
  /\ calls = <<>>
  /\ matched = <<>>
  /\ cancelledMid = FALSE
  /\ tree = Nil
  /\ limited = Nil
  /\ CollectIdle
  /\ FetchIdle
  /\ TuiIdle
  /\ MountsIdle

\* the context is cancelled (by the caller or by its deadline) while the walk runs
Cancel ==
  /\ pc = "walk"
  /\ ~ctxDone
  /\ ctxDone' = TRUE
  /\ cancelledMid' = \E i \in 1..Len(stack) : stack[i].pc = "loop" /\ stack[i].keys # <<>>
  /\ UNCHANGED <<params, stack, out, pc, ret, calls, matched, mountVars>>

\* a listing without data taken for an empty subtree
ListOutcomeEmptyDir(r, listPath) ==
  IF r.err # Nil THEN [kind |-> "fail", err |-> r.err, keys |-> <<>>]
  ELSE IF r.sec = Nil \/ r.sec.Data = Nil THEN [kind |-> "loop", err |-> Nil, keys |-> <<>>]
  ELSE LET rawKeys == Lookup(r.sec.Data, "keys")
       IN IF rawKeys = Nil \/ rawKeys.t # "list"
          THEN [kind |-> "fail", err |-> ErrUnexpectedList(listPath), keys |-> <<>>]
          ELSE [kind |-> "loop", err |-> Nil, keys |-> rawKeys.l]

\* what recurse does with the answer of its list call
ListOutcome(r, listPath) ==
  IF r.err # Nil THEN [kind |-> "fail", err |-> r.err, keys |-> <<>>]
  ELSE IF r.sec = Nil \/ r.sec.Data = Nil THEN [kind |-> "leaf", err |-> Nil, keys |-> <<>>]
  ELSE LET rawKeys == Lookup(r.sec.Data, "keys")
       IN IF rawKeys = Nil \/ rawKeys.t # "list"
          THEN [kind |-> "fail", err |-> ErrUnexpectedList(listPath), keys |-> <<>>]
          ELSE [kind |-> "loop", err |-> Nil, keys |-> rawKeys.l]

\* what the list call for inner may answer: anything, or what the fixed tree holds
ListAnswers(inner) ==
  IF tree = Nil THEN ListResponses(TreeLevel(inner))
  ELSE {e.resp : e \in {x \in tree.m : x.inner = inner}}

\* recurse, from its entry to the outcome of the list call
recurseList ==
  /\ pc = "walk"
  /\ stack # <<>>
  /\ Head(stack).pc = "list"
  /\ LET f == Head(stack)
         listPath == ListAPIPath(mount, f.inner, kv2)
     IN IF maxDepth > 0 /\ f.depth > maxDepth
        THEN ReturnNil(out) /\ UNCHANGED calls
        ELSE \E r \in ListAnswers(f.inner) :
          LET o == ListOutcome(r, listPath) IN
          /\ calls' = Append(calls, [op |-> "list", path |-> listPath, inner |-> f.inner,
                                     depth |-> f.depth, resp |-> r, late |-> f.late,
                                     done |-> ctxDone])
          /\ IF o.kind = "fail" THEN Fail(o.err)
             ELSE /\ stack' = <<[f EXCEPT !.pc = o.kind, !.keys = o.keys]>> \o Tail(stack)
                  /\ UNCHANGED <<out, pc, ret>>
  /\ UNCHANGED <<params, ctxDone, matched, cancelledMid, mountVars>>

\* k.(string): a non-string key reads as ""
KeyString(k) == IF k.t = "str" THEN k.s ELSE <<>>

\* the loop never looks at ctx
CtxErrIgnored == Nil

\* the select on ctx.Done() at the head of each loop iteration
CtxErr == IF ctxDone THEN Canceled ELSE Nil

\* the depth handed down unchanged
NextDepthStuck(depth) == depth

NextDepth(depth) == depth + 1

\* the leaf addressed by its key alone
LeafInnerKeyOnly(inner, key) == key

LeafInner(inner, key) == joinNonEmpty(<<inner, key>>)

\* every key is taken for a leaf
IsSubtreeKeyNever(key) == FALSE

\* strings.HasSuffix(key, "/")
IsSubtreeKey(key) == HasSuffix(key, <<Slash>>)

\* one pass through the head of the range loop of recurse: the ctx check and
\* the dispatch of the next child, or the return after the last child
recurseLoop ==
  /\ pc = "walk"
  /\ stack # <<>>
  /\ Head(stack).pc = "loop"
  /\ LET f == Head(stack) IN
       IF f.keys = <<>> THEN ReturnNil(out)
       ELSE IF CtxErr # Nil THEN Fail(CtxErr)
       ELSE LET key == KeyString(Head(f.keys))
                rest == [f EXCEPT !.keys = Tail(f.keys)]
            IN /\ UNCHANGED <<out, pc, ret>>
               /\ IF IsSubtreeKey(key)
                  THEN LET nextDepth == NextDepth(f.depth)
                           nextInner == joinNonEmpty(<<TrimSuffix(f.inner, <<Slash>>),
                                                       TrimSuffix(key, <<Slash>>)>>)
                       IN IF maxDepth > 0 /\ nextDepth >= maxDepth
                          THEN stack' = <<rest>> \o Tail(stack)
                          ELSE stack' = <<Frame(nextInner, nextDepth, "list", <<>>, ctxDone), rest>>
                                          \o Tail(stack)
                  ELSE IF maxDepth > 0 /\ (f.depth + 1) > maxDepth
                       THEN stack' = <<rest>> \o Tail(stack)
                       ELSE stack' = <<Frame(LeafInner(f.inner, key), f.depth + 1, "leaf",
                                             <<>>, ctxDone), rest>> \o Tail(stack)
  /\ UNCHANGED <<params, ctxDone, calls, matched, cancelledMid, mountVars>>

\* the read made whether or not values are wanted
handleLeafAlwaysReads(resp, inner, isKv2, m, withVals, o) ==
  LET logicalPath == Clean(joinNonEmpty(<<mount, inner>>))
      base == Base(logicalPath)
      ok == NameOrRegexMatch(base, logicalPath, m)
      rd == ReadSecret(resp, mount, inner, isKv2)
  IN IF rd.err # Nil THEN [out |-> o, err |-> rd.err, read |-> TRUE]
     ELSE IF ok THEN [out |-> Append(o, FoundItem(logicalPath, rd.val)), err |-> Nil, read |-> TRUE]
     ELSE [out |-> o, err |-> Nil, read |-> TRUE]

\* the filter applied before the read
handleLeafFilterFirst(resp, inner, isKv2, m, withVals, o) ==
  LET logicalPath == Clean(joinNonEmpty(<<mount, inner>>))
      base == Base(logicalPath)
      ok == NameOrRegexMatch(base, logicalPath, m)
      rd == ReadSecret(resp, mount, inner, isKv2)
  IN IF ~ok THEN [out |-> o, err |-> Nil, read |-> FALSE]
     ELSE IF withVals THEN
       IF rd.err # Nil THEN [out |-> o, err |-> rd.err, read |-> TRUE]
       ELSE [out |-> Append(o, FoundItem(logicalPath, rd.val)), err |-> Nil, read |-> TRUE]
     ELSE [out |-> Append(o, FoundItem(logicalPath, Nil)), err |-> Nil, read |-> FALSE]

\* handleLeaf(mount, inner): resp is the answer of the read call, used only
\* when the call is made
handleLeaf(resp, inner, isKv2, m, withVals, o) ==
  LET logicalPath == Clean(joinNonEmpty(<<mount, inner>>))
      base == Base(logicalPath)
      ok == NameOrRegexMatch(base, logicalPath, m)
      rd == ReadSecret(resp, mount, inner, isKv2)
  IN IF ~ok /\ ~withVals THEN [out |-> o, err |-> Nil, read |-> FALSE]
     ELSE IF withVals THEN
       IF rd.err # Nil THEN [out |-> o, err |-> rd.err, read |-> TRUE]
       ELSE IF ok THEN [out |-> Append(o, FoundItem(logicalPath, rd.val)), err |-> Nil, read |-> TRUE]
       ELSE [out |-> o, err |-> Nil, read |-> TRUE]
     ELSE IF ok THEN [out |-> Append(o, FoundItem(logicalPath, Nil)), err |-> Nil, read |-> FALSE]
     ELSE [out |-> o, err |-> Nil, read |-> FALSE]

recurseLeaf ==
  /\ pc = "walk"
  /\ stack # <<>>
  /\ Head(stack).pc = "leaf"
  /\ LET f == Head(stack)
         logicalPath == Clean(joinNonEmpty(<<mount, f.inner>>))
     IN \E resp \in (IF withValues THEN ReadResponses ELSE {Resp(Nil, Nil)}) :
          LET h == handleLeaf(resp, f.inner, kv2, matcher, withValues, out) IN
            /\ calls' = IF h.read
                        THEN Append(calls, [op |-> "read", path |-> ReadAPIPath(mount, f.inner, kv2),
                                            inner |-> f.inner, depth |-> f.depth, resp |-> resp,
                                            late |-> f.late, done |-> ctxDone])
                        ELSE calls
            /\ matched' = Append(matched,
                 [base |-> Base(logicalPath), path |-> logicalPath,
                  ok |-> NameOrRegexMatch(Base(logicalPath), logicalPath, matcher),
                  read |-> h.read, depth |-> f.depth])
            /\ IF h.err # Nil THEN Fail(h.err) ELSE ReturnNil(h.out)
  /\ UNCHANGED <<params, ctxDone, cancelledMid, mountVars>>

Next == Cancel \/ recurseList \/ recurseLoop \/ recurseLeaf

Spec == Init /\ [][Next]_vars

(***************************************************************************)
(* ReadSecret on its own: one call on a path, against every shape of       *)
(* answer the read capability can give.                                    *)
(***************************************************************************)
ReadPaths ==
  { <<"s">>, <<"s", Slash, "x">>, <<"s", Slash, "a">>,
    <<"s", Slash, "b", Slash, "a">>, <<"k", "v", Slash, "b", "a", "d">> }

AllSecretDatas ==
  SecretDatas \cup
  { Nil,
    JMap({}),
    JMap({[k |-> "data", v |-> Nil]}),
    JMap({[k |-> "data", v |-> JStr(<<"b">>)]}),
    JMap({[k |-> "data", v |-> JList(<<JStr(<<"b">>)>>)]}),
    JMap({[k |-> "data", v |-> JMap({})], [k |-> "metadata", v |-> JMap({})]}) }

AllReadResponses ==
  {Resp(Nil, e) : e \in RemoteErrors}
    \cup {Resp(Nil, Nil)}
    \cup {Resp(Secret(d), Nil) : d \in AllSecretDatas}

InitRead ==
  /\ start \in ReadPaths
  /\ kv2 \in BOOLEAN
  /\ maxDepth = 0
  /\ matcher = Nil
  /\ withValues = TRUE
  /\ CurrentNamePart = <<>>
  /\ ctxDone = FALSE
  /\ stack = <<>>
  /\ out = <<>>
  /\ pc = "read"
  /\ ret = Nil
  /\ calls = <<>>
  /\ matched = <<>>
  /\ cancelledMid = FALSE
  /\ tree = Nil
  /\ limited = Nil
  /\ CollectIdle
  /\ FetchIdle
  /\ TuiIdle
  /\ MountsIdle

readSecretCall ==
  /\ pc = "read"
  /\ \E resp \in AllReadResponses :
       /\ calls' = <<[op |-> "read", path |-> ReadAPIPath(mount, SplitMount(start).inner, kv2),
                      inner |-> SplitMount(start).inner, depth |-> 0, resp |-> resp,
                      late |-> FALSE, done |-> FALSE]>>
       /\ ret' = ReadSecret(resp, mount, SplitMount(start).inner, kv2)
  /\ pc' = "readDone"
  /\ UNCHANGED <<params, ctxDone, stack, out, matched, cancelledMid, mountVars>>

NextRead == readSecretCall

SpecRead == InitRead /\ [][NextRead]_vars

(***************************************************************************)
(* Mount discovery: ListMountsWithFallback.  Map keys and the strings in   *)
(* mount records are compared only with literals and are kept as strings.  *)
(* A mounts map is a set of [k, v] entries with distinct keys.             *)
(***************************************************************************)
ResponseError(status) == [t |-> "err", kind |-> "response", status |-> status]
TransportError == [t |-> "err", kind |-> "transport"]

MountOutput(type, options) == [Type |-> type, Options |-> options]
Mounts(m) == [t |-> "mounts", m |-> m]

\* what the primary listing may answer
PrimaryResponses ==
  { [mounts |-> Mounts({[k |-> "secret/", v |-> MountOutput("kv", {[k |-> "version", v |-> "2"]})]}),
     err |-> Nil],
    [mounts |-> Mounts({[k |-> "secret/", v |-> MountOutput("kv", {})],
                        [k |-> "sys/", v |-> MountOutput("system", {})]}),
     err |-> Nil],
    [mounts |-> Mounts({[k |-> "secret/", v |-> MountOutput("kv", {[k |-> "version", v |-> "2"]})],
                        [k |-> "kv/", v |-> MountOutput("kv", {[k |-> "version", v |-> "1"]})]}),
     err |-> Nil],
    [mounts |-> Nil, err |-> ResponseError(403)],
    [mounts |-> Nil, err |-> ResponseError(500)],
    [mounts |-> Nil, err |-> TransportError] }

\* values found under a name in the secondary response
Kv2Entry == JMap({[k |-> "type", v |-> JStr("kv")],
                  [k |-> "options", v |-> JMap({[k |-> "version", v |-> JStr("2")]})]})
Kv1Entry == JMap({[k |-> "type", v |-> JStr("kv")],
                  [k |-> "options", v |-> JMap({[k |-> "version", v |-> JStr("1")]})]})
OptionsOnlyEntry == JMap({[k |-> "options", v |-> JMap({[k |-> "version", v |-> JNum(2)]})]})
NoMountEntry == JMap({[k |-> "description", v |-> JStr("x")]})

SystemEntry == JMap({[k |-> "type", v |-> JStr("system")]})

MountName == "secret/"
SysMountName == "sys/"

\* a response body with the entry for MountName under the "mounts" key (mk),
\* at top level (top) and in the section "secret" (sa), and the entry for
\* SysMountName in the section "system" (sb); Nil leaves the place out
Body(mk, top, sa, sb) ==
  JMap( (IF mk = Nil THEN {} ELSE {[k |-> "mounts", v |-> JMap({[k |-> MountName, v |-> mk]})]})
        \cup (IF top = Nil THEN {} ELSE {[k |-> MountName, v |-> top]})
        \cup (IF sa = Nil THEN {} ELSE {[k |-> "secret", v |-> JMap({[k |-> MountName, v |-> sa]})]})
        \cup (IF sb = Nil THEN {} ELSE {[k |-> "system", v |-> JMap({[k |-> SysMountName, v |-> sb]})]}) )

Bodies ==
  { Body(mk, top, sa, sb) :
      mk \in {Nil, Kv2Entry, Kv1Entry},
      top \in {Nil, Kv2Entry, Kv1Entry, OptionsOnlyEntry, NoMountEntry, JStr("x")},
      sa \in {Nil, Kv2Entry, Kv1Entry},
      sb \in {Nil, SystemEntry, NoMountEntry} }

\* what the read of sys/internal/ui/mounts may answer
SecondaryResponses ==
  { Resp(Nil, ResponseError(403)), Resp(Nil, Nil), Resp(Secret(Nil), Nil) }
    \cup { Resp(Secret(d), Nil) : d \in Bodies }
    \cup { Resp(Secret(JMap({[k |-> "data", v |-> d]})), Nil) : d \in Bodies }

\* out[k] = mo
Put(m, k, v) == {e \in m : e.k # k} \cup {[k |-> k, v |-> v]}

\* only entries with a type are taken
MountLikeTypeOnly(v) == v.t = "map" /\ HasKey(v, "type")

\* the entries of m that mergeMounts takes for mount records
MountLike(v) == v.t = "map" /\ (HasKey(v, "type") \/ HasKey(v, "options"))

ToMountOutput(mm) ==
  LET ty == Lookup(mm, "type")
      mopts == Lookup(mm, "options")
  IN MountOutput(IF ty.t = "str" THEN ty.s ELSE "",
                 IF mopts.t = "map"
                 THEN {[k |-> e.k, v |-> e.v.s] : e \in {x \in mopts.m : x.v.t = "str"}}
                 ELSE {})

\* mergeMounts(m) applied to out: m has distinct keys, so the order of its
\* range loop does not show in the result
mergeMounts(outMap, m) ==
  {e \in outMap : ~\E x \in m.m : x.k = e.k /\ MountLike(x.v)}
    \cup {[k |-> x.k, v |-> ToMountOutput(x.v)] : x \in {y \in m.m : MountLike(y.v)}}

\* the Options of a mount
Options(m) == [t |-> "options", m |-> m]
MetaOptions == { {}, {[k |-> "version", v |-> "2"]}, {[k |-> "version", v |-> "1"]} }

\* the start paths handed to DetectKV2: below the kv mount, the system
\* mount itself, and a path whose root is no mount
DetectStarts ==
  { <<"s", "e", "c", "r", "e", "t", Slash, "x">>, <<"s", "y", "s">>, <<"o">> }

InitMounts ==
  /\ start \in DetectStarts
  /\ kv2 = FALSE
  /\ maxDepth = 0
  /\ matcher = Nil
  /\ withValues = FALSE
  /\ CurrentNamePart = <<>>
  /\ ctxDone = FALSE
  /\ stack = <<>>
  /\ out = <<>>
  /\ pc = "idle"
  /\ ret = Nil
  /\ calls = <<>>
  /\ matched = <<>>
  /\ cancelledMid = FALSE
  /\ tree = Nil
  /\ limited = Nil
  /\ CollectIdle
  /\ FetchIdle
  /\ TuiIdle
  /\ mpc = "decide"
  /\ primaryErr = Nil
  /\ root = Nil
  /\ mountsOut = {}
  /\ todo = {}
  /\ mountsRet = Nil
  /\ mcalls = <<>>
  /\ detectRet = Nil
  /\ opts \in [kv1 : BOOLEAN, forceKV2 : BOOLEAN, kv2 : BOOLEAN]
  /\ client \in {"client", "nil"}
  /\ mountOptions \in {Nil} \cup {Options(m) : m \in MetaOptions}
  /\ decideRet = Nil

\* -force-kv2 is looked at before -kv1
decideKV2ForMountMetaForceFirst(o, mo) ==
  IF o.forceKV2 THEN o.kv2
  ELSE IF o.kv1 THEN FALSE
  ELSE [k |-> "version", v |-> "2"] \in mo.m

decideKV2ForMountMeta(o, mo) ==
  IF o.kv1 THEN FALSE
  ELSE IF o.forceKV2 THEN o.kv2
  ELSE [k |-> "version", v |-> "2"] \in mo.m

\* a call of decideKV2ForMountMeta for a discovered mount
decideForMountMeta ==
  /\ mpc = "decide"
  /\ mountOptions # Nil
  /\ decideRet' = decideKV2ForMountMeta(opts, mountOptions)
  /\ mpc' = "decided"
  /\ UNCHANGED <<walkVars, primaryErr, root, mountsOut, todo, mountsRet, mcalls, detectRet,
                 opts, client, mountOptions>>

\* decideKV2ForPath up to its call of DetectKV2
decideKV2ForPath ==
  /\ mpc = "decide"
  /\ mountOptions = Nil
  /\ IF opts.kv1 THEN mpc' = "decided" /\ decideRet' = FALSE
     ELSE IF opts.forceKV2 THEN mpc' = "decided" /\ decideRet' = opts.kv2
     ELSE IF client = "nil" THEN mpc' = "decided" /\ decideRet' = opts.kv2
     ELSE mpc' = "primary" /\ decideRet' = decideRet
  /\ UNCHANGED <<walkVars, primaryErr, root, mountsOut, todo, mountsRet, mcalls, detectRet,
                 opts, client, mountOptions>>

\* every error is taken for a permission error
IsForbiddenAny(err) == TRUE

\* errors.As(err, &respErr) && respErr.StatusCode == 403
IsForbidden(err) == err.kind = "response" /\ err.status = 403

\* the primary call c.Sys().ListMountsWithContext and the decision to fall back
listMounts ==
  /\ mpc = "primary"
  /\ \E r \in PrimaryResponses :
       /\ primaryErr' = r.err
       /\ mcalls' = Append(mcalls, [op |-> "sys/mounts", resp |-> r])
       /\ IF r.err = Nil
          THEN mpc' = "done" /\ mountsRet' = [mounts |-> r.mounts, err |-> Nil]
          ELSE IF ~IsForbidden(r.err)
          THEN mpc' = "done" /\ mountsRet' = [mounts |-> Nil, err |-> r.err]
          ELSE mpc' = "fallback" /\ mountsRet' = mountsRet
  /\ UNCHANGED <<walkVars, root, mountsOut, todo, detectRet, decideVars>>

\* the read of sys/internal/ui/mounts, the unwrapping of "data", the merge of
\* the "mounts" map and of root itself, up to the start of the section loop
readInternalMounts ==
  /\ mpc = "fallback"
  /\ \E r \in SecondaryResponses :
       /\ mcalls' = Append(mcalls, [op |-> "sys/internal/ui/mounts", resp |-> r])
       /\ IF r.err # Nil \/ r.sec = Nil \/ r.sec.Data = Nil
          THEN /\ mpc' = "done"
               /\ mountsRet' = [mounts |-> Nil, err |-> primaryErr]
               /\ UNCHANGED <<root, mountsOut, todo>>
          ELSE LET inner == Lookup(r.sec.Data, "data")
                   rt == IF inner.t = "map" THEN inner ELSE r.sec.Data
                   mountsMap == Lookup(rt, "mounts")
                   o1 == IF mountsMap.t = "map" THEN mergeMounts({}, mountsMap) ELSE {}
                   o2 == mergeMounts(o1, rt)
               IN /\ root' = rt
                  /\ mountsOut' = o2
                  /\ todo' = {e.k : e \in rt.m}
                  /\ IF rt.m = {}
                     THEN mpc' = "done" /\ mountsRet' = [mounts |-> Mounts(o2), err |-> Nil]
                     ELSE mpc' = "sections" /\ mountsRet' = mountsRet
  /\ UNCHANGED <<walkVars, primaryErr, detectRet, decideVars>>

\* one iteration of `for _, v := range root`, in whatever order the map
\* hands out its keys; after the last one the function returns out
mergeSection ==
  /\ mpc = "sections"
  /\ \E key \in todo :
       LET v == Lookup(root, key)
           o == IF v.t = "map" THEN mergeMounts(mountsOut, v) ELSE mountsOut
       IN /\ mountsOut' = o
          /\ todo' = todo \ {key}
          /\ IF todo \ {key} = {}
             THEN mpc' = "done" /\ mountsRet' = [mounts |-> Mounts(o), err |-> Nil]
             ELSE mpc' = mpc /\ mountsRet' = mountsRet
  /\ UNCHANGED <<walkVars, primaryErr, root, mcalls, detectRet, decideVars>>

\* a Go string as a map key
RECURSIVE GoString(_)
GoString(p) == IF p = <<>> THEN "" ELSE p[1] \o GoString(Tail(p))

\* a mount that is not known is reported as a definite v1
DetectKV2UnknownIsV1(res, startPath) ==
  LET key == GoString(SplitMount(startPath).mount) \o "/"
  IN IF res.err # Nil \/ ~\E e \in res.mounts.m : e.k = key
     THEN [v |-> FALSE, ok |-> TRUE]
     ELSE LET m == (CHOOSE e \in res.mounts.m : e.k = key).v
          IN [v |-> m.Type = "kv" /\ [k |-> "version", v |-> "2"] \in m.Options, ok |-> TRUE]

\* DetectKV2 on the result res of ListMountsWithFallback
DetectKV2(res, startPath) ==
  LET key == GoString(SplitMount(startPath).mount) \o "/"
  IN IF res.err # Nil THEN [v |-> FALSE, ok |-> FALSE]
     ELSE IF ~\E e \in res.mounts.m : e.k = key THEN [v |-> FALSE, ok |-> FALSE]
     ELSE LET m == (CHOOSE e \in res.mounts.m : e.k = key).v
          IN IF m.Type # "kv" THEN [v |-> FALSE, ok |-> TRUE]
             ELSE IF [k |-> "version", v |-> "2"] \in m.Options THEN [v |-> TRUE, ok |-> TRUE]
             ELSE [v |-> FALSE, ok |-> TRUE]

\* the rest of DetectKV2 once ListMountsWithFallback has returned
detectKV2 ==
  /\ mpc = "done"
  /\ detectRet' = DetectKV2(mountsRet, start)
  /\ mpc' = "detected"
  /\ UNCHANGED <<walkVars, primaryErr, root, mountsOut, todo, mountsRet, mcalls, decideVars>>

\* decideKV2ForPath after DetectKV2 has returned
decideKV2ForPathReturn ==
  /\ mpc = "detected"
  /\ decideRet' = IF detectRet.ok THEN detectRet.v ELSE opts.kv2
  /\ mpc' = "decided"
  /\ UNCHANGED <<walkVars, primaryErr, root, mountsOut, todo, mountsRet, mcalls, detectRet,
                 opts, client, mountOptions>>

NextMounts ==
  \/ decideForMountMeta \/ decideKV2ForPath
  \/ listMounts \/ readInternalMounts \/ mergeSection \/ detectKV2
  \/ decideKV2ForPathReturn

SpecMounts == InitMounts /\ [][NextMounts]_vars

(***************************************************************************)
(* Vocabulary of the properties, read off the history variables.           *)
(***************************************************************************)
NumSegs(p) == Len(DropEmpty(SplitSlash(p)))
Child(parent, name) == parent \o <<Slash>> \o name
IsDirKey(k) == k # <<>> /\ k[Len(k)] = Slash
DirName(k) == SubSeq(k, 1, Len(k) - 1)

ListIdx == {i \in 1..Len(calls) : calls[i].op = "list"}
ReadIdx == {i \in 1..Len(calls) : calls[i].op = "read"}

\* the answer carried no data / carried these keys
NoDataResp(r) == r.err = Nil /\ (r.sec = Nil \/ r.sec.Data = Nil)
KeysResp(r) ==
  IF r.err = Nil /\ r.sec # Nil /\ r.sec.Data # Nil /\ HasKey(r.sec.Data, "keys")
  THEN LET l == Lookup(r.sec.Data, "keys").l IN {l[i].s : i \in 1..Len(l)}
  ELSE {}

\* the list calls made for logical path L
ListedAt(L) ==
  {i \in ListIdx : calls[i].path = ListAPIPath(SplitMount(L).mount, SplitMount(L).inner, kv2)}

\* every subtree key of every answered listing has had its own listing made
TreeClosed ==
  \A i \in ListIdx : \A k \in KeysResp(calls[i].resp) :
    IsDirKey(k) => \E j \in ListIdx : calls[j].inner = joinNonEmpty(<<calls[i].inner, DirName(k)>>)

\* leaf keys reachable from L through listed subtree keys, as full paths;
\* with selfLeaves also the reachable paths whose own listing carried no data
RECURSIVE Reachable(_, _)
Reachable(L, selfLeaves) ==
  LET at == ListedAt(L) IN
    IF at = {} THEN {}
    ELSE LET r == calls[CHOOSE i \in at : TRUE].resp IN
      IF NoDataResp(r) THEN (IF selfLeaves THEN {L} ELSE {})
      ELSE UNION {IF IsDirKey(k) THEN Reachable(Child(L, DirName(k)), selfLeaves)
                  ELSE {Child(L, k)} : k \in KeysResp(r)}

PathsOf(items) == {items[i].Path : i \in 1..Len(items)}

NoFilter == CurrentNamePart = <<>> /\ matcher = Nil
Succeeded == pc = "done" /\ ret.err = Nil

\* the filter of the specification: substring of the folded base name, or
\* the pattern found in the full path
NameHit(base) == \E i \in 0..(Len(base) - Len(CurrentNamePart)) :
  \A j \in 1..Len(CurrentNamePart) : ToLowerCh(base[i + j]) = ToLowerCh(CurrentNamePart[j])
RegexHit(fullPath) == \E i \in 0..(Len(fullPath) - Len(matcher.lit)) :
  \A j \in 1..Len(matcher.lit) : fullPath[i + j] = matcher.lit[j]
FilterAccepts(base, fullPath) ==
  IF CurrentNamePart = <<>> /\ matcher = Nil THEN TRUE
  ELSE IF matcher = Nil THEN NameHit(base)
  ELSE IF CurrentNamePart = <<>> THEN RegexHit(fullPath)
  ELSE NameHit(base) \/ RegexHit(fullPath)

(***************************************************************************)
(* C1: with maxDepth = d > 0 every item collected or returned lies under   *)
(* the start path, at most d segments below it; on the tree                *)
(* s -> {b/ -> ..., a} a walk of s with maxDepth 1 returns exactly s/a.    *)
(***************************************************************************)
WithinDepth(items) ==
  \A i \in 1..Len(items) :
    /\ HasPrefix(items[i].Path, start)
    /\ NumSegs(items[i].Path) <= NumSegs(start) + maxDepth

C1_DepthBound ==
  /\ maxDepth > 0 => WithinDepth(out)
  /\ (maxDepth > 0 /\ Succeeded) => WithinDepth(ret.items)
  /\ (Succeeded /\ maxDepth = 1 /\ NoFilter /\ ~withValues /\ start = <<"s">>
        /\ calls # <<>> /\ KeysResp(calls[1].resp) = {<<"b", Slash>>, <<"a">>})
       => ret.items = <<FoundItem(<<"s", Slash, "a">>, Nil)>>

\* a depth-limited walk that returned a leaf and passed over a listed subtree
C1_Witness ==
  /\ Succeeded /\ maxDepth = 1
  /\ Len(ret.items) = 1
  /\ \E i \in ListIdx : \E k \in KeysResp(calls[i].resp) : IsDirKey(k)
  /\ Cardinality(ListIdx) = 1

(***************************************************************************)
(* C2 as stated: an unlimited, unfiltered walk without values that         *)
(* succeeds returns one item per reachable leaf key and nothing else.      *)
(***************************************************************************)
C2case == Succeeded /\ maxDepth = 0 /\ NoFilter /\ ~withValues

C2_OnlyLeafKeys ==
  C2case =>
    /\ TreeClosed
    /\ PathsOf(ret.items) = Reachable(start, FALSE)
    /\ Len(ret.items) = Cardinality(Reachable(start, FALSE))

(***************************************************************************)
(* C2 amended: such a walk returns one item per reachable leaf key and     *)
(* one per reachable path (the start path or a listed subtree) whose own   *)
(* listing carried no data, and nothing else.                              *)
(***************************************************************************)
C2_LeafKeysAndSelfLeaves ==
  C2case =>
    /\ TreeClosed
    /\ PathsOf(ret.items) = Reachable(start, TRUE)
    /\ Len(ret.items) = Cardinality(Reachable(start, TRUE))
    /\ \A i \in 1..Len(ret.items) : ret.items[i].Value = Nil

\* the tree s -> {a, b/ -> {C}} walked completely
C2_Witness ==
  /\ C2case /\ start = <<"s">>
  /\ Cardinality(ListIdx) = 2
  /\ PathsOf(ret.items) = {<<"s", Slash, "a">>, <<"s", Slash, "b", Slash, "C">>}

(***************************************************************************)
(* C3: a path whose listing succeeds without data is handled as a leaf     *)
(* itself: it is the next thing handleLeaf runs on, and when the start     *)
(* path is such a path (values off, filter accepting) the walk returns     *)
(* exactly that path.                                                      *)
(***************************************************************************)
C3_NoDataIsLeaf ==
  /\ \A i \in ListIdx : NoDataResp(calls[i].resp) =>
       LET L == IF calls[i].inner = <<>> THEN mount ELSE Child(mount, calls[i].inner) IN
         \/ /\ i = Len(calls) /\ pc = "walk"
            /\ Head(stack).pc = "leaf" /\ Head(stack).inner = calls[i].inner
         \/ \E j \in 1..Len(matched) : matched[j].path = L /\ matched[j].depth = calls[i].depth
  /\ (pc = "done" /\ ~withValues /\ calls # <<>> /\ NoDataResp(calls[1].resp)
        /\ FilterAccepts(Base(start), start))
       => ret = [items |-> <<FoundItem(start, Nil)>>, err |-> Nil]

\* walking s/x, whose listing carries no data, returned s/x
C3_Witness ==
  /\ pc = "done" /\ start = <<"s", Slash, "x">> /\ ~withValues
  /\ NoDataResp(calls[1].resp)
  /\ ret.items = <<FoundItem(<<"s", Slash, "x">>, Nil)>>

(***************************************************************************)
(* C4: an error answered by any list or read call ends the walk at once:   *)
(* WalkVault returns that error and nil items, whatever was collected.     *)
(***************************************************************************)
C4_FailFast ==
  \A i \in 1..Len(calls) : calls[i].resp.err # Nil =>
    /\ i = Len(calls)
    /\ pc = "done"
    /\ ret = [items |-> Nil, err |-> calls[i].resp.err]

\* a call failed after items had been collected from earlier children
C4_Witness ==
  /\ pc = "done" /\ out # <<>>
  /\ calls[Len(calls)].resp.err # Nil
  /\ calls[Len(calls)].depth > 0
  /\ ret.items = Nil

(***************************************************************************)
(* C5 as stated: no remote call is started for a child whose loop          *)
(* iteration begins after the cancellation, and a walk cancelled while a   *)
(* child of an active loop was still unprocessed returns the context's     *)
(* cancellation error.                                                     *)
(***************************************************************************)
NoLateCall == \A i \in 1..Len(calls) : ~calls[i].late

C5_CancelledReturnsCanceled ==
  /\ NoLateCall
  /\ (pc = "done" /\ cancelledMid) => ret = [items |-> Nil, err |-> Canceled]

(***************************************************************************)
(* C5 amended: no remote call is started for a child whose loop iteration  *)
(* begins after the cancellation, and a walk cancelled while a child of an *)
(* active loop was still unprocessed returns no item list but an error:    *)
(* the context's cancellation error, unless a call made for the child that *)
(* was already in progress at the cancellation fails, in which case it     *)
(* returns that call's failure.                                            *)
(***************************************************************************)
FailureOf(c) ==
  IF c.resp.err # Nil THEN c.resp.err
  ELSE IF c.op = "list" THEN ErrUnexpectedList(c.path)
  ELSE ErrNoData(c.path)

C5_CancelledReturnsError ==
  /\ NoLateCall
  /\ (pc = "done" /\ cancelledMid) =>
       /\ ret.items = Nil
       /\ \/ ret.err = Canceled
          \/ /\ calls # <<>>
             /\ calls[Len(calls)].done /\ ~calls[Len(calls)].late
             /\ ret.err = FailureOf(calls[Len(calls)])

\* cancelled in mid-walk; the call in progress still went out and succeeded,
\* then the next iteration saw the cancellation
C5_Witness ==
  /\ pc = "done" /\ cancelledMid
  /\ ret.err = Canceled
  /\ calls[Len(calls)].done
  /\ out # <<>>

(***************************************************************************)
(* C6: the verdict of NameOrRegexMatch on every leaf is: true without name *)
(* part and matcher; the folded base name containing the folded name part  *)
(* when only that is set; the matcher matching the full path when only     *)
(* that is set; the OR of the two when both are set.                       *)
(***************************************************************************)
C6_FilterTable ==
  \A j \in 1..Len(matched) :
    LET e == matched[j] IN
      /\ NoFilter => e.ok
      /\ (CurrentNamePart # <<>> /\ matcher = Nil) => (e.ok <=> NameHit(e.base))
      /\ (CurrentNamePart = <<>> /\ matcher # Nil) => (e.ok <=> RegexHit(e.path))
      /\ (CurrentNamePart # <<>> /\ matcher # Nil) => (e.ok <=> (NameHit(e.base) \/ RegexHit(e.path)))

\* both set: one leaf accepted on the pattern alone, one rejected by both
C6_Witness ==
  /\ CurrentNamePart # <<>> /\ matcher # Nil
  /\ \E j \in 1..Len(matched) :
       ~NameHit(matched[j].base) /\ RegexHit(matched[j].path) /\ matched[j].ok
  /\ \E j \in 1..Len(matched) :
       ~NameHit(matched[j].base) /\ ~RegexHit(matched[j].path) /\ ~matched[j].ok

(***************************************************************************)
(* C7: the items of a successful walk are in ascending order of their full *)
(* path strings, whatever order the listings had.                          *)
(***************************************************************************)
\* s sorts before t: at the first position where they differ s has ended or
\* has the smaller byte
Before(s, t) ==
  \E k \in 1..Len(t) :
    /\ \A i \in 1..(k - 1) : i <= Len(s) /\ s[i] = t[i]
    /\ k > Len(s) \/ (k <= Len(s) /\ Ord[s[k]] < Ord[t[k]])

C7_Sorted ==
  Succeeded => \A i, j \in 1..Len(ret.items) :
    i < j => ~Before(ret.items[j].Path, ret.items[i].Path)

\* the leaves were discovered out of order
C7_Witness ==
  /\ Succeeded /\ Len(out) >= 2
  /\ Before(out[2].Path, out[1].Path)
  /\ Len(ret.items) = Len(out)

(***************************************************************************)
(* C8: with values on, every leaf reached is read exactly once, matching   *)
(* or not; after a successful read an item with path and value is emitted  *)
(* iff the filter matches; a failed read of any leaf fails the walk.       *)
(***************************************************************************)
IsRead(c) == c.op = "read"
Reads == SelectSeq(calls, IsRead)

C8_ReadEveryLeaf ==
  withValues =>
    /\ Len(Reads) = Len(matched)
    /\ \A j \in 1..Len(matched) :
         LET c == Reads[j]
             e == matched[j]
         IN /\ e.read
            /\ c.path = ReadAPIPath(SplitMount(e.path).mount, SplitMount(e.path).inner, kv2)
            /\ IF c.resp.err = Nil /\ c.resp.sec # Nil
               THEN e.ok <=> \E i \in 1..Len(out) : out[i].Path = e.path /\ out[i].Value # Nil
               ELSE /\ j = Len(matched)
                    /\ pc = "done" /\ ret.items = Nil /\ ret.err # Nil
                    /\ \A i \in 1..Len(out) : out[i].Path # e.path
    /\ \A i \in 1..Len(out) : \E j \in 1..Len(matched) : matched[j].path = out[i].Path /\ matched[j].ok

\* a leaf the filter rejects was read, and its read error failed the walk
C8_Witness ==
  /\ withValues /\ pc = "done"
  /\ \E j \in 1..Len(matched) : ~matched[j].ok /\ Reads[j].resp.err # Nil
  /\ \E j \in 1..Len(matched) : ~matched[j].ok /\ Reads[j].resp.err = Nil

(***************************************************************************)
(* C9: ReadSecret yields the remote error unchanged when the read fails;   *)
(* an error "no data at <read path>" when there is no record; for v1 the   *)
(* record's data as it is; for v2 the mapping under "data", and the empty  *)
(* mapping without error when that key is absent, null or no mapping.      *)
(***************************************************************************)
\* the read path of the specification: "data" goes between mount and inner for v2
ReadPathOf(p, isKv2) ==
  LET i == FirstSlash(p)
      m == IF i = 0 THEN p ELSE SubSeq(p, 1, i - 1)
      rest == IF i = 0 THEN <<>> ELSE SubSeq(p, i, Len(p))
  IN IF isKv2 THEN m \o <<Slash, "d", "a", "t", "a">> \o rest ELSE p

NestedData(d) ==
  IF d = Nil THEN Nil
  ELSE IF \E e \in d.m : e.k = "data" THEN (CHOOSE e \in d.m : e.k = "data").v
  ELSE Nil

AsMount(v) ==
  MountOutput(IF \E e \in v.m : e.k = "type" /\ e.v.t = "str"
              THEN (CHOOSE e \in v.m : e.k = "type").v.s ELSE "",
              IF \E e \in v.m : e.k = "options" /\ e.v.t = "map"
              THEN {[k |-> x.k, v |-> x.v.s] :
                      x \in {y \in (CHOOSE e \in v.m : e.k = "options").v.m : y.v.t = "str"}}
              ELSE {})
IsMountRecord(v) == v.t = "map" /\ \E e \in v.m : e.k \in {"type", "options"}

\* the mount records for name n in map m of the response
RecordsIn(m, n) == {e.v : e \in {x \in m.m : x.k = n /\ IsMountRecord(x.v)}}
UnderMountsKey(n) ==
  UNION {RecordsIn(e.v, n) : e \in {x \in root.m : x.k = "mounts" /\ x.v.t = "map"}}
AtTopLevel(n) == RecordsIn(root, n)
InSections(n) ==
  UNION {RecordsIn(e.v, n) : e \in {x \in root.m : x.k # "mounts" /\ x.v.t = "map"}}

Kept(n) == (CHOOSE e \in mountsRet.mounts.m : e.k = n).v

C10_FirstMergedWins ==
  (mpc = "done" /\ root # Nil /\ mountsRet.err = Nil) =>
    \A n \in {e.k : e \in mountsRet.mounts.m} :
      IF UnderMountsKey(n) # {} THEN Kept(n) \in {AsMount(v) : v \in UnderMountsKey(n)}
      ELSE IF AtTopLevel(n) # {} THEN Kept(n) \in {AsMount(v) : v \in AtTopLevel(n)}
      ELSE Kept(n) \in {AsMount(v) : v \in InSections(n)}

(***************************************************************************)
(* C11: a successful primary listing is returned as it is, the secondary   *)
(* endpoint sys/internal/ui/mounts is called only after the primary call   *)
(* failed with a 403 response error, and any other primary failure is      *)
(* returned without a secondary call.                                      *)
(***************************************************************************)
Primary == mcalls[1].resp
SecondaryCalled == \E i \in 1..Len(mcalls) : mcalls[i].op = "sys/internal/ui/mounts"

C11_FallbackOnlyOn403 ==
  /\ SecondaryCalled =>
       /\ mcalls[1].op = "sys/mounts"
       /\ Primary.err = ResponseError(403)
  /\ (mpc = "done" /\ Primary.err = Nil) =>
       /\ mountsRet = [mounts |-> Primary.mounts, err |-> Nil]
       /\ ~SecondaryCalled
  /\ (mpc = "done" /\ Primary.err # Nil /\ Primary.err # ResponseError(403)) =>
       /\ mountsRet = [mounts |-> Nil, err |-> Primary.err]
       /\ ~SecondaryCalled

\* a server error of the primary call came back with no secondary call made
C11_Witness ==
  /\ mpc = "done"
  /\ Primary.err = ResponseError(500)
  /\ mountsRet = [mounts |-> Nil, err |-> ResponseError(500)]
  /\ Len(mcalls) = 1

(***************************************************************************)
(* C12: after a 403 of the primary listing, when the secondary call fails  *)
(* or answers with no record, no data, or data holding no mount entry in   *)
(* any of the places searched, the original primary error is returned:     *)
(* not the secondary error and not a successful empty mount map.           *)
(***************************************************************************)
Secondary == mcalls[2].resp

\* the names with a mount record somewhere in the unwrapped response
NamesIn(m) == {e.k : e \in {x \in m.m : IsMountRecord(x.v)}}
MountNames ==
  NamesIn(root)
    \cup UNION {NamesIn(e.v) : e \in {x \in root.m : x.v.t = "map"}}

NoUsableData ==
  \/ Secondary.err # Nil
  \/ Secondary.sec = Nil
  \/ Secondary.sec.Data = Nil
  \/ MountNames = {}

C12_OriginalErrorWhenNothingUsable ==
  (mpc = "done" /\ Len(mcalls) = 2 /\ NoUsableData) =>
    mountsRet = [mounts |-> Nil, err |-> Primary.err]

(***************************************************************************)
(* C13: whatever the shape of the secondary response (wrapped in "data" or *)
(* not, entries under "mounts", at top level, or one level under another   *)
(* top-level key), the names of the merged mount map are exactly the names *)
(* whose value in one of those places is a mapping with a "type" or an     *)
(* "options" field.                                                        *)
(***************************************************************************)
Unwrapped ==
  LET d == Secondary.sec.Data
  IN IF \E e \in d.m : e.k = "data" /\ e.v.t = "map"
     THEN (CHOOSE e \in d.m : e.k = "data").v
     ELSE d

ExpectedNames ==
  NamesIn(Unwrapped)
    \cup UNION {NamesIn(e.v) : e \in {x \in Unwrapped.m : x.v.t = "map"}}

C13_MergedNamesExact ==
  (mpc = "done" /\ Len(mcalls) = 2 /\ mountsRet.err = Nil) =>
    {e.k : e \in mountsRet.mounts.m} = ExpectedNames

\* a wrapped response with an options-only entry at top level, a mount in
\* one section and an entry without type and options nowhere else to be found
C13_Witness ==
  /\ mpc = "done" /\ Len(mcalls) = 2 /\ mountsRet.err = Nil
  /\ Secondary.sec.Data =
       JMap({[k |-> "data", v |-> Body(Nil, OptionsOnlyEntry, Nil, SystemEntry)]})
  /\ {e.k : e \in mountsRet.mounts.m} = {MountName, SysMountName}

(***************************************************************************)
(* C14: DetectKV2 answers (false, false) when mount discovery failed or    *)
(* the root of the path, with its trailing separator, is no discovered     *)
(* mount; (false, true) when the mount is not of type "kv"; (true, true)   *)
(* for a kv mount whose options["version"] is "2"; (false, true) for a kv  *)
(* mount with another or no version.                                       *)
(***************************************************************************)
RootKey == GoString(SplitSlash(start)[1]) \o "/"
Discovered == mountsRet.err = Nil /\ \E e \in mountsRet.mounts.m : e.k = RootKey
RootMount == (CHOOSE e \in mountsRet.mounts.m : e.k = RootKey).v
VersionOf(m) == {o.v : o \in {x \in m.Options : x.k = "version"}}

C14_DetectKV2Table ==
  mpc = "detected" =>
    IF ~Discovered THEN detectRet = [v |-> FALSE, ok |-> FALSE]
    ELSE IF RootMount.Type # "kv" THEN detectRet = [v |-> FALSE, ok |-> TRUE]
    ELSE IF VersionOf(RootMount) = {"2"} THEN detectRet = [v |-> TRUE, ok |-> TRUE]
    ELSE detectRet = [v |-> FALSE, ok |-> TRUE]

\* a root that is no discovered mount is reported as unknown, after a
\* fallback that did find other mounts
C14_Witness ==
  /\ mpc = "detected"
  /\ Len(mcalls) = 2
  /\ mountsRet.err = Nil /\ mountsRet.mounts.m # {}
  /\ ~Discovered
  /\ detectRet = [v |-> FALSE, ok |-> FALSE]

LogicalAt(i) == IF calls[i].inner = <<>> THEN mount ELSE Child(mount, calls[i].inner)

ListedAsSubtree(P) ==
  \E i \in ListIdx : \E k \in KeysResp(calls[i].resp) :
    IsDirKey(k) /\ Child(LogicalAt(i), DirName(k)) = P
ListedAsLeafKey(P) ==
  \E i \in ListIdx : \E k \in KeysResp(calls[i].resp) :
    ~IsDirKey(k) /\ Child(LogicalAt(i), k) = P
OwnListingHadKeys(P) ==
  \E i \in ListIdx : LogicalAt(i) = P /\ KeysResp(calls[i].resp) # {}
OwnListingNoData(P) ==
  \E i \in ListIdx : LogicalAt(i) = P /\ NoDataResp(calls[i].resp)

C16_NoInternalNodes ==
  \A i \in 1..Len(out) :
    /\ ~ListedAsSubtree(out[i].Path)
    /\ ~OwnListingHadKeys(out[i].Path)

(***************************************************************************)
(* C16 amended: every item of a walk is a key listed without trailing      *)
(* separator under the path whose listing named it, or a path whose own    *)
(* listing succeeded without data; a path listed with a trailing separator *)
(* is an item only in the second way.                                      *)
(***************************************************************************)
C16_LeafKeyOrNoDataListing ==
  \A i \in 1..Len(out) :
    /\ ListedAsLeafKey(out[i].Path) \/ OwnListingNoData(out[i].Path)
    /\ (ListedAsSubtree(out[i].Path) /\ ~ListedAsLeafKey(out[i].Path))
         => OwnListingNoData(out[i].Path)

\* the key "b/" was listed under s, the listing of s/b carried no data, and
\* s/b is an item
C16_Witness ==
  /\ pc = "done" /\ ret.err = Nil
  /\ ListedAsSubtree(<<"s", Slash, "b">>)
  /\ OwnListingNoData(<<"s", Slash, "b">>)
  /\ <<"s", Slash, "b">> \in PathsOf(ret.items)

(***************************************************************************)
(* C17: when WalkVault fails because a list or read call answered with an  *)
(* error, the error it returns carries the path of that call.              *)
(***************************************************************************)
LastCall == calls[Len(calls)]
FailedOnRemoteError ==
  /\ pc = "done" /\ ret.err # Nil
  /\ calls # <<>> /\ LastCall.resp.err # Nil

CarriesPath(err, p) == "at" \in DOMAIN err /\ err.at = p

C17_RemoteErrorCarriesPath ==
  FailedOnRemoteError => CarriesPath(ret.err, LastCall.path)

(***************************************************************************)
(* C18: a list answer whose data is present but holds no "keys" sequence   *)
(* fails the walk with a protocol error naming the list path, and no item  *)
(* is produced for the listed path; an answer without data is not this     *)
(* error: its path is handled as a leaf.                                   *)
(***************************************************************************)
NoKeysSequence(r) ==
  /\ r.err = Nil /\ r.sec # Nil /\ r.sec.Data # Nil
  /\ ~\E e \in r.sec.Data.m : e.k = "keys" /\ e.v.t = "list"

ProtocolErrorAt(p) == [t |-> "err", kind |-> "unexpected list response", at |-> p]

C18_MissingKeysIsProtocolError ==
  \A i \in ListIdx :
    /\ NoKeysSequence(calls[i].resp) =>
         /\ i = Len(calls)
         /\ pc = "done"
         /\ ret = [items |-> Nil, err |-> ProtocolErrorAt(calls[i].path)]
         /\ \A j \in 1..Len(out) : out[j].Path # LogicalAt(i)
         /\ \A j \in 1..Len(matched) : matched[j].path # LogicalAt(i)
    /\ NoDataResp(calls[i].resp) =>
         ~(pc = "done" /\ ret.err = ProtocolErrorAt(calls[i].path))

\* the listing of the subtree s/b held data without keys, after the leaf
\* s/a had been collected
C18_Witness ==
  /\ pc = "done"
  /\ Len(calls) >= 2 /\ LastCall.op = "list" /\ LastCall.inner = <<"b">>
  /\ NoKeysSequence(LastCall.resp)
  /\ out # <<>>
  /\ ret = [items |-> Nil, err |-> ProtocolErrorAt(LastCall.path)]

(***************************************************************************)
(* Two walks of one tree: WalkVault with maxDepth = d > 0 and then with    *)
(* maxDepth = 0 from the same start path.  The tree is fixed beforehand: a *)
(* listing for the start path and for every subtree key listed in it,      *)
(* each either without data or with a keys sequence.                       *)
(***************************************************************************)
TreeListings(depth) ==
  {r \in ListResponses(depth) : r.err = Nil /\ (NoDataResp(r) \/ HasKey(r.sec.Data, "keys"))}

SubtreesOf(r) == {DirName(k) : k \in {x \in KeysResp(r) : IsDirKey(x)}}

RECURSIVE TreesAt(_, _)
RECURSIVE TreesBelow(_, _, _)
\* the trees rooted at inner, as sets of listings
TreesAt(inner, depth) ==
  UNION { { {[inner |-> inner, resp |-> r]} \cup t : t \in TreesBelow(SubtreesOf(r), inner, depth) } :
            r \in TreeListings(depth) }
\* one tree for every subtree name in D
TreesBelow(D, inner, depth) ==
  IF D = {} THEN {{}}
  ELSE LET d == CHOOSE x \in D : TRUE
       IN { t1 \cup t2 : t1 \in TreesAt(joinNonEmpty(<<inner, d>>), depth + 1),
                          t2 \in TreesBelow(D \ {d}, inner, depth) }

Tree(m) == [t |-> "tree", m |-> m]

InitPrune ==
  /\ start = <<"s">>
  /\ kv2 \in BOOLEAN
  /\ maxDepth \in 1..MaxDepthArg
  /\ matcher \in {Nil, Regexp(<<"b">>)}
  /\ withValues = FALSE
  /\ CurrentNamePart = <<>>
  /\ ctxDone = FALSE
  /\ stack = <<Frame(SplitMount(start).inner, 0, "list", <<>>, FALSE)>>
  /\ out = <<>>
  /\ pc = "walk"
  /\ ret = Nil
  /\ calls = <<>>
  /\ matched = <<>>
  /\ cancelledMid = FALSE
  /\ tree \in {Tree(m) : m \in TreesAt(SplitMount(start).inner, 0)}
  /\ limited = Nil
  /\ CollectIdle
  /\ FetchIdle
  /\ TuiIdle
  /\ MountsIdle

\* the caller keeps the result of the limited walk and calls WalkVault again
\* with maxDepth = 0
walkUnlimited ==
  /\ pc = "done"
  /\ tree # Nil
  /\ limited = Nil
  /\ limited' = [ret |-> ret, maxDepth |-> maxDepth]
  /\ maxDepth' = 0
  /\ stack' = <<Frame(SplitMount(start).inner, 0, "list", <<>>, FALSE)>>
  /\ out' = <<>>
  /\ pc' = "walk"
  /\ ret' = Nil
  /\ calls' = <<>>
  /\ matched' = <<>>
  /\ UNCHANGED <<start, kv2, matcher, withValues, CurrentNamePart, tree, collectVars,
                 fetchVars, tuiVars, ctxDone, cancelledMid, mountVars>>

NextPrune == recurseList \/ recurseLoop \/ recurseLeaf \/ walkUnlimited

SpecPrune == InitPrune /\ [][NextPrune]_vars

(***************************************************************************)
(* C19: for every tree and every d > 0 the walk with maxDepth = d returns  *)
(* exactly the items of the walk with maxDepth = 0 whose paths lie at most *)
(* d segments below the start path.                                        *)
(***************************************************************************)
WithinBound(item) == NumSegs(item.Path) <= NumSegs(start) + limited.maxDepth

BothWalked == pc = "done" /\ limited # Nil /\ limited.ret.err = Nil /\ ret.err = Nil

C19_PruningLosesNothing ==
  BothWalked => limited.ret.items = SelectSeq(ret.items, WithinBound)

(***************************************************************************)
(* Batch collection: collectItems and the three strategies it routes to.   *)
(* The runs modelled here have -max-depth 1 and neither -values nor -json, *)
(* and the runs with start paths have -kv1 or -force-kv2 set, with which   *)
(* decideKV2ForPath decides from the flags alone.                          *)
(***************************************************************************)
RECURSIVE TrimSpace(_)
TrimSpace(p) ==
  IF p # <<>> /\ Head(p) = " " THEN TrimSpace(Tail(p))
  ELSE IF p # <<>> /\ p[Len(p)] = " " THEN TrimSpace(SubSeq(p, 1, Len(p) - 1))
  ELSE p

\* the mount names that discovery can return, as Go strings and as paths
MountPaths == { <<"s", "e", "c", "r", "e", "t", Slash>>, <<"k", "v", Slash>>, <<"s", "y", "s", Slash>> }
MountPathOf(name) == CHOOSE q \in MountPaths : GoString(q) = name

\* decideKV2ForPath with -kv1 or -force-kv2 set
decideKV2ByFlags(o) == IF o.kv1 THEN FALSE ELSE o.kv2

\* the error of the walk handed on without the path
ErrWalkingBare(what, p, err) == err
ErrWalking(what, p, err) == [t |-> "err", kind |-> what, at |-> p, err |-> err]

CollectArgs(startPath, paths) == [startPath |-> startPath, paths |-> paths]

NoFlags == [kv1 |-> FALSE, forceKV2 |-> FALSE, kv2 |-> FALSE]
Kv1Flag == [kv1 |-> TRUE, forceKV2 |-> FALSE, kv2 |-> FALSE]
ForceKv2Flags == [kv1 |-> FALSE, forceKV2 |-> TRUE, kv2 |-> TRUE]

\* the command lines: no start path (all mounts), -path, -paths
CollectInputs ==
  { <<CollectArgs(sp, <<>>), o>> : sp \in {<<>>, <<" ">>}, o \in {NoFlags, ForceKv2Flags} }
    \cup { <<CollectArgs(<<"s">>, <<>>), o>> : o \in {Kv1Flag, ForceKv2Flags} }
    \cup { <<CollectArgs(sp, ps), o>> :
              sp \in {<<>>, <<"s">>},
              ps \in { <<(<<"s", Slash, "x">>), (<<"s">>)>>, <<(<<"s">>), (<<"s", Slash, "x">>)>> },
              o \in {Kv1Flag, ForceKv2Flags} }

InitCollect ==
  /\ start = <<>>
  /\ kv2 = FALSE
  /\ maxDepth = 1
  /\ matcher = Nil
  /\ withValues = FALSE
  /\ CurrentNamePart = <<>>
  /\ ctxDone = FALSE
  /\ stack = <<>>
  /\ out = <<>>
  /\ pc = "idle"
  /\ ret = Nil
  /\ calls = <<>>
  /\ matched = <<>>
  /\ cancelledMid = FALSE
  /\ tree = Nil
  /\ limited = Nil
  /\ \E in \in CollectInputs : cargs = in[1] /\ opts = in[2]
  /\ cpc = "start"
  /\ pendingPaths = <<>>
  /\ pendingMounts = {}
  /\ allItems = <<>>
  /\ collectRet = Nil
  /\ FetchIdle
  /\ TuiIdle
  /\ mpc = "idle"
  /\ primaryErr = Nil
  /\ root = Nil
  /\ mountsOut = {}
  /\ todo = {}
  /\ mountsRet = Nil
  /\ mcalls = <<>>
  /\ detectRet = Nil
  /\ client = "client"
  /\ mountOptions = Nil
  /\ decideRet = Nil

\* search.WalkVault(ctx, client.Logical(), p, isKv2, opts.maxDepth, matcher, ...) is entered
CallWalkVault(p, isKv2) ==
  /\ start' = p
  /\ kv2' = isKv2
  /\ stack' = <<Frame(SplitMount(p).inner, 0, "list", <<>>, ctxDone)>>
  /\ out' = <<>>
  /\ pc' = "walk"
  /\ ret' = Nil
  /\ calls' = <<>>
  /\ matched' = <<>>

WalkerKept == <<start, kv2, stack, out, pc, ret, calls, matched>>
WalkerRest == <<maxDepth, matcher, withValues, CurrentNamePart, tree, limited, fetchVars, tuiVars,
                ctxDone, cancelledMid>>
MountsKept == <<primaryErr, root, mountsOut, todo, mountsRet, mcalls, detectRet, decideVars>>

\* collectItems: the routing
collectItems ==
  /\ cpc = "start"
  /\ IF TrimSpace(cargs.startPath) = <<>> /\ Len(cargs.paths) = 0
     THEN cpc' = "mounts" /\ mpc' = "primary" /\ pendingPaths' = pendingPaths
     ELSE IF Len(cargs.paths) > 0
     THEN cpc' = "paths" /\ mpc' = mpc /\ pendingPaths' = cargs.paths
     ELSE cpc' = "single" /\ mpc' = mpc /\ pendingPaths' = pendingPaths
  /\ UNCHANGED <<WalkerKept, WalkerRest, MountsKept, cargs, pendingMounts, allItems, collectRet>>

\* collectAcrossAllMounts once ListMountsWithFallback has returned: the
\* process exits on an error, else the range loop over the mounts begins
collectAcrossAllMounts ==
  /\ cpc = "mounts"
  /\ mpc = "done"
  /\ IF mountsRet.err # Nil
     THEN cpc' = "exit" /\ pendingMounts' = pendingMounts
     ELSE cpc' = "mountLoop" /\ pendingMounts' = mountsRet.mounts.m
  /\ mpc' = "idle"
  /\ UNCHANGED <<WalkerKept, WalkerRest, MountsKept, cargs, pendingPaths, allItems, collectRet>>

\* one iteration of `for mntPath, m := range mounts` up to the call of
\* WalkVault, in whatever order the map hands out its keys; after the last
\* one the function returns items
collectMountNext ==
  /\ cpc = "mountLoop"
  /\ IF pendingMounts = {}
     THEN /\ cpc' = "return"
          /\ collectRet' = [items |-> allItems, err |-> Nil]
          /\ UNCHANGED <<WalkerKept, pendingMounts>>
     ELSE \E e \in pendingMounts :
            /\ pendingMounts' = pendingMounts \ {e}
            /\ collectRet' = collectRet
            /\ IF e.v.Type # "kv"
               THEN cpc' = cpc /\ UNCHANGED WalkerKept
               ELSE /\ cpc' = "mountWalk"
                    /\ CallWalkVault(TrimSuffix(MountPathOf(e.k), <<Slash>>),
                                     decideKV2ForMountMeta(opts, Options(e.v.Options)))
  /\ UNCHANGED <<WalkerRest, mountVars, cargs, pendingPaths, allItems>>

\* WalkVault has returned to collectAcrossAllMounts
collectMountWalked ==
  /\ cpc = "mountWalk"
  /\ pc = "done"
  /\ pc' = "idle"
  /\ IF ret.err # Nil
     THEN /\ cpc' = "return"
          /\ collectRet' = [items |-> Nil, err |-> ErrWalking("error walking mount", start, ret.err)]
          /\ allItems' = allItems
     ELSE /\ cpc' = "mountLoop"
          /\ allItems' = allItems \o ret.items
          /\ collectRet' = collectRet
  /\ UNCHANGED <<start, kv2, stack, out, ret, calls, matched, WalkerRest, mountVars,
                 cargs, pendingPaths, pendingMounts>>

\* one iteration of `for _, p := range opts.paths` up to the call of
\* WalkVault; after the last one the function returns items
collectPathNext ==
  /\ cpc = "paths"
  /\ opts.kv1 \/ opts.forceKV2
  /\ IF pendingPaths = <<>>
     THEN /\ cpc' = "return"
          /\ collectRet' = [items |-> allItems, err |-> Nil]
          /\ UNCHANGED <<WalkerKept, pendingPaths>>
     ELSE /\ pendingPaths' = Tail(pendingPaths)
          /\ collectRet' = collectRet
          /\ cpc' = "pathWalk"
          /\ CallWalkVault(Head(pendingPaths), decideKV2ByFlags(opts))
  /\ UNCHANGED <<WalkerRest, mountVars, cargs, pendingMounts, allItems>>

\* WalkVault has returned to collectForPaths
collectPathWalked ==
  /\ cpc = "pathWalk"
  /\ pc = "done"
  /\ pc' = "idle"
  /\ IF ret.err # Nil
     THEN /\ cpc' = "return"
          /\ collectRet' = [items |-> Nil, err |-> ErrWalking("error walking path", start, ret.err)]
          /\ allItems' = allItems
     ELSE /\ cpc' = "paths"
          /\ allItems' = allItems \o ret.items
          /\ collectRet' = collectRet
  /\ UNCHANGED <<start, kv2, stack, out, ret, calls, matched, WalkerRest, mountVars,
                 cargs, pendingPaths, pendingMounts>>

\* collectForSinglePath up to the call of WalkVault
collectForSinglePath ==
  /\ cpc = "single"
  /\ opts.kv1 \/ opts.forceKV2
  /\ cpc' = "singleWalk"
  /\ CallWalkVault(cargs.startPath, decideKV2ByFlags(opts))
  /\ UNCHANGED <<WalkerRest, mountVars, cargs, pendingPaths, pendingMounts, allItems, collectRet>>

\* collectForSinglePath returns what WalkVault returned
collectSingleWalked ==
  /\ cpc = "singleWalk"
  /\ pc = "done"
  /\ pc' = "idle"
  /\ cpc' = "return"
  /\ collectRet' = ret
  /\ UNCHANGED <<start, kv2, stack, out, ret, calls, matched, WalkerRest, mountVars,
                 cargs, pendingPaths, pendingMounts, allItems>>

NextCollect ==
  \/ collectItems
  \/ listMounts \/ readInternalMounts \/ mergeSection
  \/ collectAcrossAllMounts \/ collectMountNext \/ collectMountWalked
  \/ collectPathNext \/ collectPathWalked
  \/ collectForSinglePath \/ collectSingleWalked
  \/ Cancel \/ recurseList \/ recurseLoop \/ recurseLeaf

SpecCollect == InitCollect /\ [][NextCollect]_vars

(***************************************************************************)
(* C20: the item sequence that collectItems hands to printItems is sorted  *)
(* ascending by path, also when several start paths or several kv mounts   *)
(* were walked.                                                            *)
(***************************************************************************)
HandedToPrintItems == cpc = "return" /\ collectRet.err = Nil

C20_CollectedSorted ==
  HandedToPrintItems =>
    \A i, j \in 1..Len(collectRet.items) :
      i < j => ~Before(collectRet.items[j].Path, collectRet.items[i].Path)

(***************************************************************************)
(* The lazy fetcher of interactive mode (the closure fetcher of            *)
(* runInteractiveStream) next to a bulk walk.  The runs modelled have -kv1 *)
(* or -force-kv2 set, so decideKV2ForPath decides from the flags alone.    *)
(***************************************************************************)
PerReqTimeout == 15

\* an error that is not context.DeadlineExceeded but whose text contains
\* "context deadline exceeded"
DeadlineInText == [t |-> "err", kind |-> "deadline in text"]

FetchResponses == AllReadResponses \cup {Resp(Nil, e) : e \in RemoteErrors \cup {DeadlineInText}}

\* every error is retried
IsDeadlineAny(err) == TRUE

\* errors.Is(err, context.DeadlineExceeded) || strings.Contains(err.Error(), "context deadline exceeded")
IsDeadline(err) == err = DeadlineExceeded \/ err = DeadlineInText

\* what the fetcher hands back for a value: its text
Formatted(val) == [t |-> "text", of |-> val]

FetcherReturn(rd) ==
  IF rd.err # Nil THEN [val |-> <<>>, err |-> rd.err]
  ELSE [val |-> Formatted(rd.val), err |-> Nil]

\* attempt(): a new request context with its own timeout, and the read
Attempt(resp) == [ctx |-> Len(fattempts) + 1, timeout |-> PerReqTimeout, resp |-> resp]

DiscoveryIdle ==
  /\ mpc = "idle"
  /\ primaryErr = Nil
  /\ root = Nil
  /\ mountsOut = {}
  /\ todo = {}
  /\ mountsRet = Nil
  /\ mcalls = <<>>
  /\ detectRet = Nil
  /\ client = "client"
  /\ mountOptions = Nil
  /\ decideRet = Nil

\* either the fetcher is called for the path start, or a bulk walk of s runs
InitFetch ==
  /\ opts \in {Kv1Flag, ForceKv2Flags}
  /\ kv2 = decideKV2ByFlags(opts)
  /\ maxDepth = 1
  /\ matcher = Nil
  /\ withValues \in BOOLEAN
  /\ CurrentNamePart = <<>>
  /\ ctxDone = FALSE
  /\ out = <<>>
  /\ ret = Nil
  /\ calls = <<>>
  /\ matched = <<>>
  /\ cancelledMid = FALSE
  /\ tree = Nil
  /\ limited = Nil
  /\ CollectIdle
  /\ DiscoveryIdle
  /\ fattempts = <<>>
  /\ fetchRet = Nil
  /\ TuiIdle
  /\ \/ /\ fetchPc = "fetch"
        /\ start \in {<<"s", Slash, "a">>, <<"s">>}
        /\ pc = "idle"
        /\ stack = <<>>
     \/ /\ fetchPc = "idle"
        /\ start = <<"s">>
        /\ pc = "walk"
        /\ stack = <<Frame(SplitMount(start).inner, 0, "list", <<>>, FALSE)>>

\* the fetcher up to the outcome of its first attempt
fetchAttempt ==
  /\ fetchPc = "fetch"
  /\ \E resp \in FetchResponses :
       LET rd == ReadSecret(resp, SplitMount(start).mount, SplitMount(start).inner,
                            decideKV2ByFlags(opts))
       IN /\ fattempts' = Append(fattempts, Attempt(resp))
          /\ IF rd.err # Nil /\ IsDeadline(rd.err)
             THEN fetchPc' = "retry" /\ fetchRet' = fetchRet
             ELSE fetchPc' = "fetched" /\ fetchRet' = FetcherReturn(rd)
  /\ UNCHANGED <<WalkerKept, maxDepth, matcher, withValues, CurrentNamePart, tree, limited,
                 collectVars, tuiVars, ctxDone, cancelledMid, mountVars>>

\* the second attempt and the return
fetchRetry ==
  /\ fetchPc = "retry"
  /\ \E resp \in FetchResponses :
       LET rd == ReadSecret(resp, SplitMount(start).mount, SplitMount(start).inner,
                            decideKV2ByFlags(opts))
       IN /\ fattempts' = Append(fattempts, Attempt(resp))
          /\ fetchPc' = "fetched"
          /\ fetchRet' = FetcherReturn(rd)
  /\ UNCHANGED <<WalkerKept, maxDepth, matcher, withValues, CurrentNamePart, tree, limited,
                 collectVars, tuiVars, ctxDone, cancelledMid, mountVars>>

NextFetch ==
  \/ fetchAttempt \/ fetchRetry
  \/ Cancel \/ recurseList \/ recurseLoop \/ recurseLeaf

SpecFetch == InitFetch /\ [][NextFetch]_vars

(***************************************************************************)
(* C21: one call of the lazy fetcher makes at most two read attempts, each *)
(* under a request context of its own with the per-request timeout; the    *)
(* second is made only after a deadline-exceeded error of the first; any   *)
(* other first error and any error of the second attempt is returned; the  *)
(* bulk walk makes no call twice and makes no call after a failed one.     *)
(***************************************************************************)
\* the error of an attempt: that of the call, or that of a missing record
AttemptFailed(a) == a.resp.err # Nil \/ a.resp.sec = Nil
DeadlineHit(a) == a.resp.err \in {DeadlineExceeded, DeadlineInText}
LastAttempt == fattempts[Len(fattempts)]

C21_OneRetryOnDeadline ==
  /\ Len(fattempts) <= 2
  /\ \A i \in 1..Len(fattempts) :
       /\ fattempts[i].timeout = PerReqTimeout
       /\ \A j \in 1..Len(fattempts) : i # j => fattempts[i].ctx # fattempts[j].ctx
  /\ Len(fattempts) = 2 => DeadlineHit(fattempts[1])
  /\ fetchPc = "fetched" =>
       /\ Len(fattempts) = 1 => ~DeadlineHit(fattempts[1])
       /\ AttemptFailed(LastAttempt) <=> fetchRet.err # Nil
       /\ LastAttempt.resp.err # Nil => fetchRet.err = LastAttempt.resp.err
  /\ \A i, j \in 1..Len(calls) :
       i < j => /\ ~(calls[i].op = calls[j].op /\ calls[i].path = calls[j].path)
                /\ calls[i].resp.err = Nil

\* the first attempt ran into its deadline, the second failed on permission
\* and that error was returned
C21_Witness ==
  /\ fetchPc = "fetched"
  /\ Len(fattempts) = 2
  /\ fattempts[1].resp.err = DeadlineExceeded
  /\ fattempts[2].resp.err = [t |-> "err", kind |-> "permission"]
  /\ fetchRet.err = [t |-> "err", kind |-> "permission"]

(***************************************************************************)
(* The terminal UI: UIState, ApplyFilter, HandleKey, HandleMouse and the   *)
(* redraw of RenderAll, as one event loop iteration per action.            *)
(***************************************************************************)
MaxItems == 2
MaxQueryLen == 2
PageStep == 10

ItemPaths == { <<"a">>, <<"C", "b">>, <<"b">> }
QueryRunes == {"b", "C", " "}
RowChoices == {0, 1, 2}

SeqsUpTo(S, n) == UNION {[1..k -> S] : k \in 0..n}
Distinct(xs) == \A i, j \in 1..Len(xs) : i # j => xs[i] # xs[j]
ItemLists == {its \in SeqsUpTo({FoundItem(q, Nil) : q \in ItemPaths}, MaxItems) : Distinct(its)}
Queries == SeqsUpTo(QueryRunes, MaxQueryLen)

\* strings.Contains(strings.ToLower(it.Path), lq)
PathMatches(it, lq) == Contains(ToLower(it.Path), lq)

RECURSIVE FilterByQuery(_, _)
FilterByQuery(its, lq) ==
  IF its = <<>> THEN <<>>
  ELSE IF PathMatches(Head(its), lq) THEN <<Head(its)>> \o FilterByQuery(Tail(its), lq)
  ELSE FilterByQuery(Tail(its), lq)

\* the lower bound of the cursor left out
ClampCursorUpperOnly(c, n) == IF c >= n THEN n - 1 ELSE c

\* the two ifs on st.Cursor at the end of ApplyFilter
ClampCursor(c, n) ==
  LET c1 == IF c >= n THEN n - 1 ELSE c
  IN IF c1 < 0 THEN 0 ELSE c1

\* UIState.ApplyFilter on Items its, Query q and Cursor c
ApplyFilter(its, q, c) ==
  LET f == SortItems(IF q = <<>> THEN its ELSE FilterByQuery(its, ToLower(TrimSpace(q))))
  IN [Filtered |-> f, Cursor |-> ClampCursor(c, Len(f)), Offset |-> 0]

\* RenderAll: the offset it leaves, and whether drawLeftList indexes
\* filtered[offset] with a negative offset
RenderAll(f, c, off, rows) ==
  IF rows < 1 THEN [Offset |-> off, panic |-> FALSE]
  ELSE LET o1 == IF c < off THEN c ELSE off
           o2 == IF c >= o1 + rows THEN c - rows + 1 ELSE o1
       IN [Offset |-> o2, panic |-> o2 < Len(f) /\ o2 < 0]

\* the state after runStreamImpl's first ApplyFilter and redraw
InitUI ==
  /\ start = <<>>
  /\ kv2 = FALSE
  /\ maxDepth = 0
  /\ matcher = Nil
  /\ withValues = FALSE
  /\ CurrentNamePart = <<>>
  /\ ctxDone = FALSE
  /\ stack = <<>>
  /\ out = <<>>
  /\ pc = "idle"
  /\ ret = Nil
  /\ calls = <<>>
  /\ matched = <<>>
  /\ cancelledMid = FALSE
  /\ tree = Nil
  /\ limited = Nil
  /\ CollectIdle
  /\ FetchIdle
  /\ MountsIdle
  /\ Items = <<>>
  /\ Filtered = <<>>
  /\ Query = <<>>
  /\ Cursor = 0
  /\ Offset = 0
  /\ MouseEnabled = TRUE
  /\ screenRows \in RowChoices
  /\ uiPc = "run"
  /\ lastEvent = "none"
  /\ MainIdle
  /\ MonitorAt("run")
  /\ SessionIdle

outsideUI ==
  <<start, kv2, maxDepth, matcher, withValues, CurrentNamePart, tree, limited, collectVars,
    fetchVars, sessionVars, ctxDone, stack, out, pc, ret, calls, matched, cancelledMid>>

outsidePreview ==
  <<start, kv2, maxDepth, matcher, withValues, CurrentNamePart, tree, limited, collectVars,
    fetchVars, streamVars, chanVars, ctxDone, stack, out, pc, ret, calls, matched, cancelledMid>>

\* what the fetcher handed to the UI may return: a text or an error
FetcherResults ==
  { [val |-> Formatted(JStr(<<"b">>)), err |-> Nil],
    [val |-> <<>>, err |-> [t |-> "err", kind |-> "permission"]],
    [val |-> <<>>, err |-> DeadlineExceeded] }

\* fmt.Sprintf("(error fetching values) %v", err)
ErrorText(err) == [t |-> "text", of |-> "(error fetching values)", err |-> err]
EmptyText == [t |-> "text", of |-> <<>>]

\* the cache never consulted
CachedNever(cache, p) == FALSE

\* _, ok := previewCache[p]
Cached(cache, p) == \E e \in cache : e.k = p
CachedText(cache, p) == (CHOOSE e \in cache : e.k = p).v

\* the preview part of RenderAll for the selected path p: the cached text,
\* or with previews enabled one call of the fetcher whose value or error
\* message goes into the cache
PreviewSelected(p) ==
  IF Cached(PreviewCache, p) \/ ~(hasFetcher /\ PrintValues)
  THEN UNCHANGED <<PreviewCache, PreviewErr, fetchLog>>
  ELSE \E res \in FetcherResults :
         /\ fetchLog' = Append(fetchLog, [path |-> p, res |-> res, by |-> "redraw"])
         /\ PreviewCache' = PreviewCache \cup
              {[k |-> p, v |-> IF res.err = Nil THEN res.val ELSE ErrorText(res.err)]}
         /\ PreviewErr' = IF res.err = Nil THEN PreviewErr
                          ELSE PreviewErr \cup {[k |-> p, v |-> res.err]}

\* the rest of one loop iteration: the send on activity (dropped when the
\* channel is full), the redraw when asked for with the panic of an
\* out-of-range index in it, and the look at shouldQuit
Handled(ev, q, f, c, off, redraw, sends) ==
  LET r == RenderAll(f, c, off, screenRows)
  IN /\ Query' = q
     /\ Filtered' = f
     /\ Cursor' = c
     /\ Offset' = IF redraw THEN r.Offset ELSE off
     /\ uiPc' = IF redraw /\ r.panic THEN "panic" ELSE IF shouldQuit THEN "quit" ELSE "run"
     /\ lastEvent' = ev
     /\ activityCh' = IF sends THEN 1 ELSE activityCh
     /\ lastInput' = IF sends THEN now ELSE lastInput
     /\ IF redraw /\ screenRows >= 1 /\ ~r.panic /\ Len(f) > 0 /\ c >= 0 /\ c < Len(f)
        THEN PreviewSelected(f[c + 1].Path)
        ELSE UNCHANGED <<PreviewCache, PreviewErr, fetchLog>>
     /\ UNCHANGED <<outsidePreview, PrintValues, hasFetcher, enterOut, mountVars, Items,
                    screenRows, mainVars, now, lastActivity, quitCh, shouldQuit, monitorPc,
                    lastCheck>>

KeyUp ==
  /\ uiPc = "run"
  /\ Handled("KeyUp", Query, Filtered, IF Cursor > 0 THEN Cursor - 1 ELSE Cursor, Offset, TRUE, TRUE)
  /\ UNCHANGED MouseEnabled

KeyDown ==
  /\ uiPc = "run"
  /\ Handled("KeyDown", Query, Filtered,
             IF Cursor < Len(Filtered) - 1 THEN Cursor + 1 ELSE Cursor, Offset, TRUE, TRUE)
  /\ UNCHANGED MouseEnabled

KeyPgUp ==
  /\ uiPc = "run"
  /\ Handled("KeyPgUp", Query, Filtered,
             IF Cursor - PageStep < 0 THEN 0 ELSE Cursor - PageStep, Offset, TRUE, TRUE)
  /\ UNCHANGED MouseEnabled

KeyPgDn ==
  /\ uiPc = "run"
  /\ Handled("KeyPgDn", Query, Filtered,
             IF Cursor + PageStep >= Len(Filtered) THEN Len(Filtered) - 1
             ELSE Cursor + PageStep, Offset, TRUE, TRUE)
  /\ UNCHANGED MouseEnabled

KeyHome ==
  /\ uiPc = "run"
  /\ Handled("KeyHome", Query, Filtered, 0, Offset, TRUE, TRUE)
  /\ UNCHANGED MouseEnabled

KeyEnd ==
  /\ uiPc = "run"
  /\ Handled("KeyEnd", Query, Filtered, Len(Filtered) - 1, Offset, TRUE, TRUE)
  /\ UNCHANGED MouseEnabled

KeyBackspace ==
  /\ uiPc = "run"
  /\ IF Len(Query) > 0
     THEN LET q == SubSeq(Query, 1, Len(Query) - 1)
              a == ApplyFilter(Items, q, Cursor)
          IN Handled("KeyBackspace", q, a.Filtered, a.Cursor, a.Offset, TRUE, TRUE)
     ELSE Handled("KeyBackspace", Query, Filtered, Cursor, Offset, TRUE, TRUE)
  /\ UNCHANGED MouseEnabled

KeyRune ==
  /\ uiPc = "run"
  /\ Len(Query) < MaxQueryLen
  /\ \E r \in QueryRunes :
       LET q == Query \o <<r>>
           a == ApplyFilter(Items, q, Cursor)
       IN Handled("KeyRune", q, a.Filtered, a.Cursor, a.Offset, TRUE, TRUE)
  /\ UNCHANGED MouseEnabled

\* Left Arrow toggles the mouse
KeyLeft ==
  /\ uiPc = "run"
  /\ Handled("KeyLeft", Query, Filtered, Cursor, Offset, TRUE, TRUE)
  /\ MouseEnabled' = ~MouseEnabled

\* Enter prints the selected item and quits: the cached text when there is
\* one, else what one call of the fetcher returns, its value cached
EnterSelected(it) ==
  IF ~hasFetcher
  THEN /\ enterOut' = IF it.Value # Nil THEN [t |-> "json", of |-> it.Value] ELSE EmptyText
       /\ UNCHANGED <<PreviewCache, fetchLog>>
  ELSE IF Cached(PreviewCache, it.Path)
  THEN /\ enterOut' = CachedText(PreviewCache, it.Path)
       /\ UNCHANGED <<PreviewCache, fetchLog>>
  ELSE \E res \in FetcherResults :
         /\ fetchLog' = Append(fetchLog, [path |-> it.Path, res |-> res, by |-> "enter"])
         /\ PreviewCache' = IF res.err = Nil
                            THEN PreviewCache \cup {[k |-> it.Path, v |-> res.val]}
                            ELSE PreviewCache
         /\ enterOut' = IF res.err = Nil THEN res.val ELSE ErrorText(res.err)

KeyEnter ==
  /\ uiPc = "run"
  /\ uiPc' = IF Len(Filtered) = 0 \/ Cursor \in 0..(Len(Filtered) - 1) THEN "quit" ELSE "panic"
  /\ lastEvent' = "KeyEnter"
  /\ IF Len(Filtered) > 0 /\ Cursor \in 0..(Len(Filtered) - 1)
     THEN EnterSelected(Filtered[Cursor + 1])
     ELSE UNCHANGED <<PreviewCache, fetchLog, enterOut>>
  /\ UNCHANGED <<outsidePreview, PreviewErr, PrintValues, hasFetcher, mountVars, Items,
                 Filtered, Query, Cursor, Offset, MouseEnabled, screenRows, mainVars, idleVars>>

\* Escape and Ctrl-C quit at once
KeyEscape ==
  /\ uiPc = "run"
  /\ uiPc' = "quit"
  /\ lastEvent' = "KeyEscape"
  /\ UNCHANGED <<outsideUI, mountVars, Items, Filtered, Query, Cursor, Offset,
                 MouseEnabled, screenRows, mainVars, idleVars>>

\* HandleMouse returns before the wheel when the mouse is off or no row fits
MouseHandled == MouseEnabled /\ screenRows >= 1

WheelUp ==
  /\ uiPc = "run"
  /\ Handled("WheelUp", Query, Filtered,
             IF MouseHandled /\ Cursor > 0 THEN Cursor - 1 ELSE Cursor, Offset, MouseHandled, MouseEnabled)
  /\ UNCHANGED MouseEnabled

WheelDown ==
  /\ uiPc = "run"
  /\ Handled("WheelDown", Query, Filtered,
             IF MouseHandled /\ Cursor < Len(Filtered) - 1 THEN Cursor + 1 ELSE Cursor, Offset,
             MouseHandled, MouseEnabled)
  /\ UNCHANGED MouseEnabled

\* a left click on row row of the list
LeftClick ==
  /\ uiPc = "run"
  /\ MouseEnabled
  /\ IF screenRows < 1
     THEN Handled("LeftClick", Query, Filtered, Cursor, Offset, FALSE, TRUE)
     ELSE \E row \in 0..(screenRows - 1) :
            LET newCursor == Offset + row
                hit == newCursor >= 0 /\ newCursor < Len(Filtered)
            IN Handled("LeftClick", Query, Filtered, IF hit THEN newCursor ELSE Cursor,
                       Offset, hit, TRUE)
  /\ UNCHANGED MouseEnabled

\* the receiving goroutine takes one item from itemsCh
itemArrives ==
  /\ uiPc = "run"
  /\ Len(Items) < MaxItems
  /\ \E q \in ItemPaths :
       LET it == FoundItem(q, Nil)
       IN /\ it \notin {Items[i] : i \in 1..Len(Items)}
          /\ Items' = Append(Items, it)
          /\ Filtered' = IF PathMatches(it, ToLower(TrimSpace(Query)))
                         THEN SortItems(Append(Filtered, it)) ELSE Filtered
  /\ lastEvent' = "item"
  /\ UNCHANGED <<outsideUI, mountVars, Query, Cursor, Offset, MouseEnabled, screenRows, uiPc,
                 mainVars, idleVars>>

\* EventInterrupt (posted for an item or by the ticker) and EventResize redraw
EventInterrupt ==
  /\ uiPc = "run"
  /\ Handled("EventInterrupt", Query, Filtered, Cursor, Offset, TRUE, FALSE)
  /\ UNCHANGED MouseEnabled

\* the goroutine that receives from activityCh
activityReceived ==
  /\ activityCh = 1
  /\ activityCh' = 0
  /\ lastActivity' = now
  /\ UNCHANGED <<outsideUI, mountVars, uiVars, mainVars,
                 now, lastInput, quitCh, shouldQuit, monitorPc, lastCheck>>

NextUI ==
  \/ KeyUp \/ KeyDown \/ KeyPgUp \/ KeyPgDn \/ KeyHome \/ KeyEnd
  \/ KeyBackspace \/ KeyRune \/ KeyLeft \/ KeyEnter \/ KeyEscape
  \/ WheelUp \/ WheelDown \/ LeftClick
  \/ itemArrives \/ EventInterrupt \/ activityReceived

SpecUI == InitUI /\ [][NextUI]_vars

(***************************************************************************)
(* C22: after any sequence of key, mouse and item events the cursor and    *)
(* the offset are not negative, and the cursor is below len(Filtered)      *)
(* whenever Filtered is not empty; Up at the first row and Down at the     *)
(* last row leave the cursor where it is.                                  *)
(***************************************************************************)
C22_CursorInBounds ==
  uiPc \in {"run", "panic", "quit"} =>
    /\ Cursor >= 0
    /\ Offset >= 0
    /\ Filtered # <<>> => Cursor < Len(Filtered)

(***************************************************************************)
(* ApplyFilter on its own, called on any UIState.                          *)
(***************************************************************************)
InitFilter ==
  /\ start = <<>>
  /\ kv2 = FALSE
  /\ maxDepth = 0
  /\ matcher = Nil
  /\ withValues = FALSE
  /\ CurrentNamePart = <<>>
  /\ ctxDone = FALSE
  /\ stack = <<>>
  /\ out = <<>>
  /\ pc = "idle"
  /\ ret = Nil
  /\ calls = <<>>
  /\ matched = <<>>
  /\ cancelledMid = FALSE
  /\ tree = Nil
  /\ limited = Nil
  /\ CollectIdle
  /\ FetchIdle
  /\ MountsIdle
  /\ Items \in ItemLists
  /\ Filtered \in {<<>>, Items}
  /\ Query \in Queries
  /\ Cursor \in -1..(MaxItems + 1)
  /\ Offset \in 0..1
  /\ MouseEnabled = TRUE
  /\ screenRows = 0
  /\ uiPc = "filter"
  /\ lastEvent = "none"
  /\ MainIdle
  /\ MonitorAt("idle")
  /\ SessionIdle

applyFilter ==
  /\ uiPc = "filter"
  /\ LET a == ApplyFilter(Items, Query, Cursor)
     IN /\ Filtered' = a.Filtered
        /\ Cursor' = a.Cursor
        /\ Offset' = a.Offset
  /\ uiPc' = "filtered"
  /\ UNCHANGED <<outsideUI, mountVars, Items, Query, MouseEnabled, screenRows, lastEvent,
                 mainVars, idleVars>>

NextFilter == applyFilter

SpecFilter == InitFilter /\ [][NextFilter]_vars

(***************************************************************************)
(* C23: after ApplyFilter, Filtered holds exactly the Items whose          *)
(* lower-cased path contains the trimmed, lower-cased Query (all of them   *)
(* when Query is empty), in ascending order of path; Cursor is clamped     *)
(* into [0, max(0, len(Filtered)-1)]; Offset is 0; Items and Query are     *)
(* unchanged.                                                              *)
(***************************************************************************)
Wanted(its, q) ==
  {its[i] : i \in {j \in 1..Len(its) : q = <<>> \/ Contains(ToLower(its[j].Path), ToLower(TrimSpace(q)))}}
Ascending(f) == \A i \in 1..(Len(f) - 1) : ~StrLess(f[i + 1].Path, f[i].Path)
Highest(f) == IF Len(f) = 0 THEN 0 ELSE Len(f) - 1
Clamped(c, hi) == IF c < 0 THEN 0 ELSE IF c > hi THEN hi ELSE c

C23_ApplyFilterResult ==
  [][uiPc = "filter" /\ uiPc' = "filtered" =>
       /\ {Filtered'[i] : i \in 1..Len(Filtered')} = Wanted(Items, Query)
       /\ Len(Filtered') = Cardinality(Wanted(Items, Query))
       /\ Ascending(Filtered')
       /\ Cursor' = Clamped(Cursor, Highest(Filtered'))
       /\ Offset' = 0
       /\ Items' = Items
       /\ Query' = Query]_vars

\* two items, one of them kept by the query " C" in its trimmed, folded form
C23_Witness ==
  /\ uiPc = "filtered"
  /\ Query = <<" ", "C">>
  /\ Len(Items) = 2
  /\ Len(Filtered) = 1
  /\ Filtered[1].Path = <<"C", "b">>
  /\ Cursor = 0

(***************************************************************************)
(* The idle and token monitor of runInteractiveStream next to the event    *)
(* loop.  Time is counted in seconds.                                      *)
(***************************************************************************)
MaxClock == 450
IdleExitAfter == 300
TickerPeriod == 2
TimeSteps == {150, 298, 300}

DigitVal(c) == CASE c = "0" -> 0 [] c = "6" -> 6 [] OTHER -> -1

\* strconv.ParseInt of a string of digits; -1 for any other string, which
\* time.ParseDuration rejects as well
RECURSIVE ParseDigits(_, _)
ParseDigits(cs, acc) ==
  IF cs = <<>> THEN acc
  ELSE IF DigitVal(Head(cs)) < 0 THEN -1
  ELSE ParseDigits(Tail(cs), 10 * acc + DigitVal(Head(cs)))

\* the type switch on sec.Data["ttl"]
TtlSeconds(sec) ==
  LET hits == {e \in sec.Data.m : e.k = "ttl"}
  IN IF hits = {} THEN -1
     ELSE LET v == (CHOOSE e \in hits : TRUE).v
          IN IF v.t = "num" THEN v.n
             ELSE IF v.t = "str" /\ v.s # <<>> THEN ParseDigits(v.s, 0)
             ELSE -1

LookupResponses ==
  { Resp(Nil, [t |-> "err", kind |-> "transport"]),
    Resp(Nil, Nil),
    Resp(Secret(JMap({})), Nil),
    Resp(Secret(JMap({[k |-> "ttl", v |-> JNum(0)]})), Nil),
    Resp(Secret(JMap({[k |-> "ttl", v |-> JNum(60)]})), Nil),
    Resp(Secret(JMap({[k |-> "ttl", v |-> JStr(<<"6", "0">>)]})), Nil),
    Resp(Secret(JMap({[k |-> "ttl", v |-> JStr(<<"x">>)]})), Nil) }

\* expired of the monitor
Expired(resp) == resp.err # Nil \/ resp.sec = Nil \/ TtlSeconds(resp.sec) <= 0

InitIdle == InitUI /\ screenRows = 2

\* the goroutine receiving from activityCh is not held up for seconds
timePasses ==
  /\ uiPc = "run"
  /\ activityCh = 0
  /\ \E d \in TimeSteps :
       /\ now + d <= MaxClock
       /\ now' = now + d
  /\ UNCHANGED <<outsideUI, mountVars, uiVars, mainVars,
                 lastActivity, lastInput, activityCh, quitCh, shouldQuit, monitorPc, lastCheck>>

\* one tick of the monitor's ticker
monitorCheck ==
  /\ monitorPc = "run"
  /\ uiPc = "run"
  /\ now > 0
  /\ now % TickerPeriod = 0
  /\ \E resp \in LookupResponses :
       LET signal == Expired(resp) /\ now - lastActivity >= IdleExitAfter
       IN /\ lastCheck' = [resp |-> resp, sinceInput |-> now - lastInput, signaled |-> signal]
          /\ quitCh' = IF signal THEN "closed" ELSE quitCh
          /\ monitorPc' = IF signal THEN "returned" ELSE "run"
  /\ UNCHANGED <<outsideUI, mountVars, uiVars, mainVars,
                 now, lastActivity, lastInput, activityCh, shouldQuit>>

\* the goroutine of runStreamImpl that waits for quit
quitWatcher ==
  /\ quitCh = "closed"
  /\ ~shouldQuit
  /\ shouldQuit' = TRUE
  /\ UNCHANGED <<outsideUI, mountVars, uiVars, mainVars,
                 now, lastActivity, lastInput, activityCh, quitCh, monitorPc, lastCheck>>

NextIdle ==
  \/ KeyUp \/ KeyLeft \/ WheelUp \/ KeyEscape \/ EventInterrupt
  \/ activityReceived \/ timePasses \/ monitorCheck \/ quitWatcher

SpecIdle == InitIdle /\ [][NextIdle]_vars

(***************************************************************************)
(* C26: the idle monitor closes quitCh, once, if and only if at one of its *)
(* periodic checks the token's TTL has reached 0 and the user has been     *)
(* inactive for at least the idle threshold; activity restarts the idle    *)
(* period, and the TUI exits after the signal.                             *)
(***************************************************************************)
TtlReachedZero(resp) ==
  /\ resp.err = Nil
  /\ resp.sec # Nil
  /\ \E e \in resp.sec.Data.m : e.k = "ttl"
  /\ TtlSeconds(resp.sec) = 0

C26_QuitIffTtlZeroAndIdle ==
  /\ lastCheck # Nil =>
       (lastCheck.signaled <=>
          TtlReachedZero(lastCheck.resp) /\ lastCheck.sinceInput >= IdleExitAfter)
  /\ quitCh = "closed" => lastCheck # Nil /\ lastCheck.signaled
  /\ uiPc = "quit" /\ lastEvent # "KeyEscape" => quitCh = "closed"

(***************************************************************************)
(* main: parseFlagsWithArgs with determineInteractive, then either         *)
(* runInteractiveStream or collectForSinglePath and printItems.  The runs  *)
(* modelled have -path s and -kv1.                                         *)
(***************************************************************************)
CommandLine(v, j, i, n, tty) ==
  [printValues |-> v, jsonOut |-> j, interactive |-> i, argsLen |-> n, stdoutIsTTY |-> tty]

\* any arguments of determineInteractive
DetermineInputs ==
  {CommandLine(v, j, i, n, tty) : v \in BOOLEAN, j \in BOOLEAN, i \in BOOLEAN,
                                   n \in 0..2, tty \in BOOLEAN}

FlagCount(c) ==
  (IF c.printValues THEN 1 ELSE 0) + (IF c.jsonOut THEN 1 ELSE 0) + (IF c.interactive THEN 1 ELSE 0)

\* command lines of a run: no argument at all, or -path s -kv1 and the flags
CommandLines ==
  {CommandLine(v, j, i, n, tty) : v \in BOOLEAN, j \in BOOLEAN, i \in BOOLEAN,
                                   n \in {0, 3, 4, 5, 6}, tty \in BOOLEAN}

RunInputs == {c \in CommandLines : c.argsLen = 0 \/ c.argsLen = 3 + FlagCount(c)}

\* -values or -json makes the run interactive also without a terminal
determineInteractiveNoTTY(c) ==
  IF c.argsLen = 0 THEN TRUE
  ELSE IF c.printValues \/ c.jsonOut THEN TRUE
  ELSE c.interactive

determineInteractive(c) ==
  IF c.argsLen = 0 THEN TRUE
  ELSE IF c.stdoutIsTTY /\ (c.printValues \/ c.jsonOut) THEN TRUE
  ELSE c.interactive

\* -json left out
valuesDuringWalkValuesOnly(o) == o.printValues /\ ~o.interactive

valuesDuringWalk(o) == (o.printValues \/ o.jsonOut) /\ ~o.interactive

ParsedOptions(c) ==
  [printValues |-> c.printValues, jsonOut |-> c.jsonOut, interactive |-> determineInteractive(c)]

\* json.Encoder.Encode of the item slice; the empty item lists of this
\* program are nil slices, which encoding/json writes as null
Encode(its) ==
  IF its = <<>> THEN [t |-> "json", text |-> "null", elems |-> <<>>]
  ELSE [t |-> "json", text |-> "array", elems |-> its]

\* formatValueRaw as the text of a value
formatValueRaw(v) == [t |-> "raw", of |-> v]

PrintedLines(its, o) ==
  [t |-> "lines",
   elems |-> [i \in 1..Len(its) |->
                IF o.printValues THEN <<its[i].Path, "=", formatValueRaw(its[i].Value)>>
                ELSE <<its[i].Path>>]]

printItemsOutput(its, o) == IF o.jsonOut THEN Encode(its) ELSE PrintedLines(its, o)

InitMain ==
  /\ start = <<"s">>
  /\ opts = Kv1Flag
  /\ kv2 = FALSE
  /\ maxDepth = 1
  /\ matcher = Nil
  /\ withValues = FALSE
  /\ CurrentNamePart \in {<<>>, <<"c">>}
  /\ ctxDone = FALSE
  /\ stack = <<>>
  /\ out = <<>>
  /\ pc = "idle"
  /\ ret = Nil
  /\ calls = <<>>
  /\ matched = <<>>
  /\ cancelledMid = FALSE
  /\ tree = Nil
  /\ limited = Nil
  /\ CollectIdle
  /\ FetchIdle
  /\ DiscoveryIdle
  /\ uiPc = "idle"
  /\ Items = <<>>
  /\ Filtered = <<>>
  /\ Query = <<>>
  /\ Cursor = 0
  /\ Offset = 0
  /\ MouseEnabled = FALSE
  /\ screenRows = 0
  /\ lastEvent = "none"
  /\ MonitorAt("idle")
  /\ SessionIdle
  /\ mainOpts = Nil
  /\ stdout = Nil
  /\ secs = 0
  /\ lastTTLDisp = Nil
  /\ \/ mainPc = "determine" /\ cli \in DetermineInputs
     \/ mainPc = "parse" /\ cli \in RunInputs

mainRest ==
  <<maxDepth, matcher, CurrentNamePart, tree, limited, collectVars, fetchVars, uiVars,
    idleVars, ttlVars, sessionVars, ctxDone, cancelledMid, mountVars>>

\* determineInteractive called on its own
determineInteractiveCall ==
  /\ mainPc = "determine"
  /\ mainOpts' = ParsedOptions(cli)
  /\ mainPc' = "determined"
  /\ UNCHANGED <<WalkerKept, withValues, mainRest, cli, stdout>>

parseFlagsWithArgs ==
  /\ mainPc = "parse"
  /\ mainOpts' = ParsedOptions(cli)
  /\ mainPc' = "parsed"
  /\ UNCHANGED <<WalkerKept, withValues, mainRest, cli, stdout>>

\* main enters runInteractiveStream, whose goroutine calls WalkVaultStream
runInteractiveStream ==
  /\ mainPc = "parsed"
  /\ mainOpts.interactive
  /\ withValues' = FALSE
  /\ mainPc' = "stream"
  /\ UNCHANGED <<WalkerKept, mainRest, cli, mainOpts, stdout>>

\* the UI asks the fetcher for the item it shows or prints
selectItem ==
  /\ mainPc = "stream"
  /\ fetchPc = "idle"
  /\ fetchPc' = "fetch"
  /\ UNCHANGED <<WalkerKept, withValues, maxDepth, matcher, CurrentNamePart, tree, limited,
                 collectVars, fattempts, fetchRet, tuiVars, ctxDone, cancelledMid, mountVars>>

\* main enters collectItems: collectForSinglePath calls WalkVault
collectForSinglePathCall ==
  /\ mainPc = "parsed"
  /\ ~mainOpts.interactive
  /\ CallWalkVault(start, decideKV2ByFlags(opts))
  /\ withValues' = valuesDuringWalk(mainOpts)
  /\ mainPc' = "collect"
  /\ UNCHANGED <<mainRest, cli, mainOpts, stdout>>

\* the end of main: fatal on an error of the walk, printItems otherwise
printItems ==
  /\ mainPc = "collect"
  /\ pc = "done"
  /\ IF ret.err # Nil
     THEN mainPc' = "fatal" /\ stdout' = stdout
     ELSE mainPc' = "printed" /\ stdout' = printItemsOutput(ret.items, mainOpts)
  /\ UNCHANGED <<WalkerKept, withValues, mainRest, cli, mainOpts>>

NextMain ==
  \/ determineInteractiveCall \/ parseFlagsWithArgs
  \/ runInteractiveStream \/ selectItem \/ fetchAttempt \/ fetchRetry
  \/ collectForSinglePathCall \/ recurseList \/ recurseLoop \/ recurseLeaf \/ printItems

SpecMain == InitMain /\ [][NextMain]_vars

(***************************************************************************)
(* C24: values are fetched during the walk iff -values or -json is set and *)
(* the run is not interactive; an interactive run starts its walk with     *)
(* value fetching off and reads values only through the fetcher, for a     *)
(* selected path.                                                          *)
(***************************************************************************)
WalkStarted == mainPc \in {"stream", "collect", "printed", "fatal"}
WalkReads == {i \in 1..Len(calls) : calls[i].op = "read"}

C24_ValuesDuringWalk ==
  /\ WalkStarted =>
       (withValues <=> (cli.printValues \/ cli.jsonOut) /\ ~mainOpts.interactive)
  /\ WalkStarted /\ mainOpts.interactive => mainPc = "stream" /\ ~withValues
  /\ WalkReads # {} => withValues
  /\ withValues /\ pc = "done" /\ ret.err = Nil =>
       \A i \in 1..Len(ret.items) : ret.items[i].Value # Nil
  /\ fattempts # <<>> => mainPc = "stream" /\ WalkReads = {}

\* -json without a terminal: the walk read the value of the leaf it printed
C24_Witness ==
  /\ mainPc = "printed"
  /\ cli.jsonOut
  /\ ~cli.printValues
  /\ withValues
  /\ WalkReads # {}
  /\ Len(ret.items) = 1

(***************************************************************************)
(* C25: determineInteractive is true iff there are no arguments, or stdout *)
(* is a terminal and -values or -json is set, or -interactive is set.      *)
(***************************************************************************)
C25_DetermineInteractive ==
  mainOpts # Nil =>
    (mainOpts.interactive <=>
       \/ cli.argsLen = 0
       \/ cli.stdoutIsTTY /\ (cli.printValues \/ cli.jsonOut)
       \/ cli.interactive)

\* -values without a terminal and without -interactive: not interactive
C25_Witness ==
  /\ mainPc = "determined"
  /\ cli.printValues
  /\ ~cli.stdoutIsTTY
  /\ ~cli.interactive
  /\ cli.argsLen = 2
  /\ ~mainOpts.interactive

(***************************************************************************)
(* C27: with -json in a non-interactive run printItems writes a JSON array *)
(* for every item list, the empty result of a walk without matches         *)
(* included.                                                               *)
(***************************************************************************)
C27_JsonArrayAlways ==
  mainPc = "printed" /\ mainOpts.jsonOut =>
    /\ stdout.t = "json"
    /\ stdout.text = "array"
    /\ Len(stdout.elems) = Len(ret.items)

(***************************************************************************)
(* ListAPIPath and ReadAPIPath on their own, called as everywhere in the   *)
(* program on the two parts SplitMount makes of a path.                    *)
(***************************************************************************)
ApiMounts == { <<"k", "v">>, <<"s", "e", "c", "r", "e", "t">>, <<"s">>, <<"k">> }
ApiInners ==
  { <<>>, <<"a", "p", "p">>, <<"a", "p", "p", Slash>>, <<"a", Slash, "b">>,
    <<"a", Slash, "b", Slash>>, <<"x">>, <<"x", Slash>> }
ApiStarts ==
  {lead \o m \o <<Slash>> \o inn : lead \in {<<>>, <<Slash>>}, m \in ApiMounts, inn \in ApiInners}

InitPaths ==
  /\ start \in ApiStarts
  /\ kv2 \in BOOLEAN
  /\ maxDepth = 0
  /\ matcher = Nil
  /\ withValues = FALSE
  /\ CurrentNamePart = <<>>
  /\ ctxDone = FALSE
  /\ stack = <<>>
  /\ out = <<>>
  /\ pc = "paths"
  /\ ret = Nil
  /\ calls = <<>>
  /\ matched = <<>>
  /\ cancelledMid = FALSE
  /\ tree = Nil
  /\ limited = Nil
  /\ CollectIdle
  /\ FetchIdle
  /\ TuiIdle
  /\ MountsIdle

\* both paths of start, kept in calls as the walker keeps them
apiPaths ==
  /\ pc = "paths"
  /\ LET m == SplitMount(start).mount
         inn == SplitMount(start).inner
         c(op, q) == [op |-> op, path |-> q, inner |-> inn, depth |-> 0, resp |-> Nil,
                      late |-> FALSE, done |-> FALSE]
     IN calls' = <<c("list", ListAPIPath(m, inn, kv2)), c("read", ReadAPIPath(m, inn, kv2))>>
  /\ pc' = "pathsDone"
  /\ UNCHANGED <<params, ctxDone, stack, out, ret, matched, cancelledMid, mountVars>>

NextPaths == apiPaths

SpecPaths == InitPaths /\ [][NextPaths]_vars

(***************************************************************************)
(* C28: with kv2 the list path is mount/metadata/inner and the read path   *)
(* mount/data/inner; without kv2 both are mount/inner; the path is         *)
(* cleaned, so an empty inner or a trailing separator of inner leaves no   *)
(* trailing or doubled separator.                                          *)
(***************************************************************************)
RECURSIVE StripSlashes(_)
StripSlashes(q) ==
  IF q # <<>> /\ q[Len(q)] = Slash THEN StripSlashes(SubSeq(q, 1, Len(q) - 1)) ELSE q

WithSegment(prefix, seg) == IF seg = <<>> THEN prefix ELSE prefix \o <<Slash>> \o seg

ApiSegment(c) ==
  IF ~kv2 THEN <<>>
  ELSE IF c.op = "list" THEN <<"m", "e", "t", "a", "d", "a", "t", "a">>
  ELSE <<"d", "a", "t", "a">>

C28_ApiPaths ==
  \A i \in 1..Len(calls) :
    LET c == calls[i] IN
    /\ c.path = WithSegment(WithSegment(mount, ApiSegment(c)), StripSlashes(c.inner))
    /\ c.path[Len(c.path)] # Slash
    /\ \A j \in 1..(Len(c.path) - 1) : ~(c.path[j] = Slash /\ c.path[j + 1] = Slash)

\* ListAPIPath("kv", "app", true) and ReadAPIPath("kv", "app", true)
C28_Witness ==
  /\ pc = "pathsDone"
  /\ kv2
  /\ mount = <<"k", "v">>
  /\ calls[1].inner = <<"a", "p", "p">>
  /\ calls[1].path = <<"k", "v", Slash, "m", "e", "t", "a", "d", "a", "t", "a", Slash, "a", "p", "p">>
  /\ calls[2].path = <<"k", "v", Slash, "d", "a", "t", "a", Slash, "a", "p", "p">>

(***************************************************************************)
(* formatTTLHuman.  The text is kept as its components: "1y 2mo 1w" is     *)
(* the parts 1 y, 2 mo, 1 w joined by blanks.  The inputs are far from the *)
(* ends of int64, and the function only divides and takes remainders.      *)
(***************************************************************************)
MaxYears == 2
Minute == 60
Hour == 60 * Minute
Day == 24 * Hour
Week == 7 * Day
Month == 30 * Day
Year == 365 * Day

TtlInputs ==
  {-1} \cup {y * Year + d * Day + r : y \in 0..MaxYears,
                                      d \in {0, 1, 7, 8, 30, 59, 60, 67, 364},
                                      r \in {0, 1, Minute, Hour, Hour + Minute + 1}}

\* fmt.Sprintf("%d<unit>", n) appended to parts; the function returns when
\* there are three
AddPart(st, n, unit, rest) ==
  LET ps == Append(st.parts, [n |-> n, unit |-> unit])
  IN [parts |-> ps, rem |-> rest, done |-> Len(ps) = 3]

\* one plain unit: years, days, hours, minutes
Whole(st, size, unit) ==
  IF st.done \/ st.rem < size THEN st
  ELSE AddPart(st, st.rem \div size, unit, st.rem % size)

\* rem is not brought down by the months taken out
MonthsKeepRem(st) ==
  LET remDays == st.rem \div Day
  IN IF st.done \/ remDays < 60 THEN st
     ELSE AddPart(st, remDays \div 30, "mo", st.rem)

\* months only from 60 days on
Months(st) ==
  LET remDays == st.rem \div Day
      subDay == st.rem % Day
  IN IF st.done \/ remDays < 60 THEN st
     ELSE AddPart(st, remDays \div 30, "mo", (remDays % 30) * Day + subDay)

\* weeks only when no part of a day is left over
Weeks(st) ==
  LET remDays == st.rem \div Day
      subDay == st.rem % Day
  IN IF st.done \/ ~(subDay = 0 /\ remDays >= 7) THEN st
     ELSE AddPart(st, remDays \div 7, "w", (remDays % 7) * Day + subDay)

Seconds(st) ==
  IF st.done \/ ~(st.rem > 0 /\ Len(st.parts) < 3) THEN st
  ELSE AddPart(st, st.rem, "s", 0)

formatTTLHuman(n) ==
  IF n < 0 THEN [text |-> "n/a", parts |-> <<>>]
  ELSE IF n = 0 THEN [text |-> "0s", parts |-> <<>>]
  ELSE LET st0 == [parts |-> <<>>, rem |-> n, done |-> FALSE]
           st1 == Whole(st0, Year, "y")
           st2 == Months(st1)
           st3 == Weeks(st2)
           st4 == Whole(st3, Day, "d")
           st5 == Whole(st4, Hour, "h")
           st6 == Whole(st5, Minute, "m")
           st7 == Seconds(st6)
       IN IF Len(st7.parts) = 0 THEN [text |-> "<1s", parts |-> <<>>]
          ELSE [text |-> "joined", parts |-> st7.parts]

InitTtl ==
  /\ start = <<>>
  /\ kv2 = FALSE
  /\ maxDepth = 0
  /\ matcher = Nil
  /\ withValues = FALSE
  /\ CurrentNamePart = <<>>
  /\ ctxDone = FALSE
  /\ stack = <<>>
  /\ out = <<>>
  /\ pc = "idle"
  /\ ret = Nil
  /\ calls = <<>>
  /\ matched = <<>>
  /\ cancelledMid = FALSE
  /\ tree = Nil
  /\ limited = Nil
  /\ CollectIdle
  /\ FetchIdle
  /\ MountsIdle
  /\ uiPc = "idle"
  /\ Items = <<>>
  /\ Filtered = <<>>
  /\ Query = <<>>
  /\ Cursor = 0
  /\ Offset = 0
  /\ MouseEnabled = FALSE
  /\ screenRows = 0
  /\ lastEvent = "none"
  /\ MonitorAt("idle")
  /\ SessionIdle
  /\ cli = Nil
  /\ mainOpts = Nil
  /\ stdout = Nil
  /\ mainPc = "format"
  /\ secs \in TtlInputs
  /\ lastTTLDisp = Nil

formatTTL ==
  /\ mainPc = "format"
  /\ lastTTLDisp' = formatTTLHuman(secs)
  /\ mainPc' = "formatted"
  /\ UNCHANGED <<outsideUI, mountVars, uiVars, idleVars, cli, mainOpts, stdout, secs>>

NextTtl == formatTTL

SpecTtl == InitTtl /\ [][NextTtl]_vars

(***************************************************************************)
(* C29: formatTTLHuman gives "n/a" below 0 and "0s" for 0; above 0 it      *)
(* gives one to three components in descending order of unit (y, mo, w, d, *)
(* h, m, s), each with a positive count, that together (a month 30 days, a *)
(* year 365 days) never make more than the input.                          *)
(***************************************************************************)
UnitRank(u) ==
  CASE u = "y" -> 7 [] u = "mo" -> 6 [] u = "w" -> 5 [] u = "d" -> 4
    [] u = "h" -> 3 [] u = "m" -> 2 [] u = "s" -> 1

UnitSeconds(u) ==
  CASE u = "y" -> 365 * 86400 [] u = "mo" -> 30 * 86400 [] u = "w" -> 7 * 86400
    [] u = "d" -> 86400 [] u = "h" -> 3600 [] u = "m" -> 60 [] u = "s" -> 1

RECURSIVE TotalSeconds(_)
TotalSeconds(ps) ==
  IF ps = <<>> THEN 0 ELSE Head(ps).n * UnitSeconds(Head(ps).unit) + TotalSeconds(Tail(ps))

C29_TtlText ==
  mainPc = "formatted" =>
    /\ secs < 0 => lastTTLDisp.text = "n/a"
    /\ secs = 0 => lastTTLDisp.text = "0s"
    /\ secs > 0 =>
         /\ lastTTLDisp.text = "joined"
         /\ Len(lastTTLDisp.parts) \in 1..3
         /\ \A i \in 1..Len(lastTTLDisp.parts) : lastTTLDisp.parts[i].n > 0
         /\ \A i \in 1..(Len(lastTTLDisp.parts) - 1) :
              UnitRank(lastTTLDisp.parts[i].unit) > UnitRank(lastTTLDisp.parts[i + 1].unit)
         /\ TotalSeconds(lastTTLDisp.parts) <= secs

\* one year, 67 days and a second: "1y 2mo 7d", the second left out
C29_Witness ==
  /\ mainPc = "formatted"
  /\ secs = 365 * 86400 + 67 * 86400 + 1
  /\ lastTTLDisp.parts = <<[n |-> 1, unit |-> "y"], [n |-> 2, unit |-> "mo"], [n |-> 7, unit |-> "d"]>>

(***************************************************************************)
(* C30: ReadSecret with kv2 on an existing record whose data has no nested *)
(* "data" key returns the empty mapping and no error; ReadSecret on a path *)
(* with no record returns an error.                                        *)
(***************************************************************************)
\* the call got a record, and its data has no "data" key
NoNestedKey ==
  /\ calls[1].resp.err = Nil
  /\ calls[1].resp.sec # Nil
  /\ \/ calls[1].resp.sec.Data = Nil
     \/ \A e \in calls[1].resp.sec.Data.m : e.k # "data"

\* the call got neither a record nor an error
NoRecord == calls[1].resp.err = Nil /\ calls[1].resp.sec = Nil

InitStream ==
  /\ start = <<>>
  /\ kv2 = FALSE
  /\ maxDepth = 0
  /\ matcher = Nil
  /\ withValues = FALSE
  /\ CurrentNamePart = <<>>
  /\ ctxDone = FALSE
  /\ stack = <<>>
  /\ out = <<>>
  /\ pc = "idle"
  /\ ret = Nil
  /\ calls = <<>>
  /\ matched = <<>>
  /\ cancelledMid = FALSE
  /\ tree = Nil
  /\ limited = Nil
  /\ CollectIdle
  /\ FetchIdle
  /\ MountsIdle
  /\ Items = <<>>
  /\ Filtered = <<>>
  /\ Query = <<>>
  /\ Cursor = 0
  /\ Offset = 0
  /\ MouseEnabled = TRUE
  /\ screenRows \in RowChoices
  /\ uiPc = "run"
  /\ lastEvent = "none"
  /\ MainIdle
  /\ MonitorAt("run")
  /\ recvPc = "wait"
  /\ recvIt = Nil
  /\ recvQ = <<>>
  /\ ChansIdle
  /\ PreviewIdle

streamRest ==
  <<start, kv2, maxDepth, matcher, withValues, CurrentNamePart, tree, limited, collectVars,
    fetchVars, ctxDone, stack, out, pc, ret, calls, matched, cancelledMid, mountVars,
    mainVars, idleVars, chanVars, previewVars, Cursor, Offset, MouseEnabled, screenRows, uiPc, lastEvent>>

\* for it := range itemsCh { uiState.Items = append(uiState.Items, it)
receiverTakes ==
  /\ recvPc = "wait"
  /\ Len(Items) < MaxItems
  /\ \E q \in ItemPaths :
       LET it == FoundItem(q, Nil)
       IN /\ it \notin {Items[i] : i \in 1..Len(Items)}
          /\ Items' = Append(Items, it)
          /\ recvIt' = it
  /\ recvPc' = "appended"
  /\ UNCHANGED <<streamRest, Filtered, Query, recvQ>>

\* q := strings.ToLower(strings.TrimSpace(uiState.Query))
receiverReadsQuery ==
  /\ recvPc = "appended"
  /\ recvQ' = ToLower(TrimSpace(Query))
  /\ recvPc' = "queried"
  /\ UNCHANGED <<streamRest, Items, Filtered, Query, recvIt>>

\* q == "" || strings.Contains(strings.ToLower(it.Path), q)
ReceiverKeeps(it, q) == q = <<>> \/ PathMatches(it, q)

\* the append to Filtered with its sort, and the interrupt posted
receiverFilters ==
  /\ recvPc = "queried"
  /\ Filtered' = IF ReceiverKeeps(recvIt, recvQ)
                 THEN SortItems(Append(Filtered, recvIt)) ELSE Filtered
  /\ recvPc' = "wait"
  /\ recvIt' = Nil
  /\ UNCHANGED <<streamRest, Items, Query, recvQ>>

NextStream ==
  \/ receiverTakes \/ receiverReadsQuery \/ receiverFilters
  \/ KeyRune \/ KeyBackspace \/ EventInterrupt

SpecStream == InitStream /\ [][NextStream]_vars

(***************************************************************************)
(* C31: under every interleaving of an item arrival with a query edit,     *)
(* Filtered holds no item twice, every element of Filtered is an element   *)
(* of Items whose path matches the current query, and Filtered is no       *)
(* longer than Items.                                                      *)
(***************************************************************************)
C31_FilteredWithinItems ==
  /\ \A i, j \in 1..Len(Filtered) : i # j => Filtered[i] # Filtered[j]
  /\ \A i \in 1..Len(Filtered) :
       /\ \E j \in 1..Len(Items) : Items[j] = Filtered[i]
       /\ Query # <<>> => Contains(ToLower(Filtered[i].Path), ToLower(TrimSpace(Query)))
  /\ Len(Filtered) <= Len(Items)

(***************************************************************************)
(* C32: a walk without values never calls the read capability: it makes    *)
(* list calls only, one for each path it visits (the start path and every  *)
(* path it descends into) and none twice, and each leaf it handles is      *)
(* known from a listing: a key listed without trailing separator, or a     *)
(* path whose own listing carried no data.                                 *)
(***************************************************************************)
\* the paths the finished unlimited walk descended into
DescendedInto(P) == P = start \/ ListedAsSubtree(P)

C32_ListCallsOnly ==
  ~withValues =>
    /\ \A i \in 1..Len(calls) : calls[i].op = "list" /\ DescendedInto(LogicalAt(i))
    /\ \A i, j \in 1..Len(calls) : i # j => calls[i].path # calls[j].path
    /\ \A j \in 1..Len(matched) :
         /\ ~matched[j].read
         /\ ListedAsLeafKey(matched[j].path) \/ OwnListingNoData(matched[j].path)
    /\ \A i \in 1..Len(out) : out[i].Value = Nil
    /\ (pc = "done" /\ ret.err = Nil /\ maxDepth = 0) =>
         \A i \in 1..Len(calls) : \A k \in KeysResp(calls[i].resp) :
           IsDirKey(k) => \E j \in 1..Len(calls) : LogicalAt(j) = Child(LogicalAt(i), DirName(k))

\* a walk without values listed two paths, handled two leaves and returned them
C32_Witness ==
  /\ ~withValues /\ pc = "done" /\ ret.err = Nil
  /\ Len(calls) = 2
  /\ Len(matched) >= 2
  /\ Len(ret.items) >= 2

(***************************************************************************)
(* C34: in batch mode over several start paths or several mounts, the      *)
(* first walk that fails ends the collection: the function returns no      *)
(* items, not even those of the walks before, and an error that names the  *)
(* failing path and carries the error of the walk; no walk is started      *)
(* after that.                                                             *)
(***************************************************************************)
\* a walk of collectForPaths or collectAcrossAllMounts has returned an error
\* and the collector takes its next step
WalkFailedIn(loop) == cpc = loop /\ pc = "done" /\ ret.err # Nil /\ pc' = "idle"

C34_FirstFailureEnds ==
  [][/\ WalkFailedIn("pathWalk") =>
          /\ cpc' = "return"
          /\ collectRet' = [items |-> Nil,
                            err |-> [t |-> "err", kind |-> "error walking path",
                                     at |-> start, err |-> ret.err]]
     /\ WalkFailedIn("mountWalk") =>
          /\ cpc' = "return"
          /\ collectRet' = [items |-> Nil,
                            err |-> [t |-> "err", kind |-> "error walking mount",
                                     at |-> start, err |-> ret.err]]
     /\ cpc = "return" => (pc' # "walk" /\ start' = start /\ collectRet' = collectRet)
    ]_vars

\* the walk of the second start path failed after the first had yielded items
C34_Witness ==
  /\ cpc = "return"
  /\ collectRet.err # Nil
  /\ collectRet.err.kind = "error walking path"
  /\ collectRet.items = Nil
  /\ allItems # <<>>

(***************************************************************************)
(* The walker goroutine of runInteractiveStream with its two channels.     *)
(* search.WalkVaultStream is called for one mount or path at a time; while *)
(* a call runs it sends items on itemsCh, and it returns nil or an error.  *)
(* The UI takes items until RunStream returns; runInteractiveStream then   *)
(* calls cancel() and looks at errCh once, without waiting.                *)
(***************************************************************************)
ItemsChCap == 256
ErrChCap == 1

KvMount(name) == [name |-> name, Type |-> "kv"]
OtherMount(name) == [name |-> name, Type |-> "system"]

\* what search.ListMountsWithFallback may hand to the goroutine, the mounts in
\* the order the range loop visits them
MountListings ==
  {[mounts |-> <<>>, err |-> e] : e \in RemoteErrors}
    \cup {[mounts |-> m, err |-> Nil] :
            m \in { <<>>, <<KvMount("kv/")>>,
                    <<OtherMount("sys/"), KvMount("kv/")>>,
                    <<KvMount("kv/"), OtherMount("sys/")>>,
                    <<KvMount("kv/"), KvMount("secret/")>> }}

RoutineInputs ==
  { CollectArgs(<<>>, <<>>), CollectArgs(<<" ">>, <<>>), CollectArgs(<<"s">>, <<>>),
    CollectArgs(<<>>, <<(<<"s", Slash, "x">>), (<<"s">>)>>) }

Logged(ev, v) == [ev |-> ev, v |-> v]
LogIdx(ev) == {i \in 1..Len(chanLog) : chanLog[i].ev = ev}

InitRoutine ==
  /\ start = <<>>
  /\ kv2 = FALSE
  /\ maxDepth = 0
  /\ matcher = Nil
  /\ withValues = FALSE
  /\ CurrentNamePart = <<>>
  /\ ctxDone = FALSE
  /\ stack = <<>>
  /\ out = <<>>
  /\ pc = "idle"
  /\ ret = Nil
  /\ calls = <<>>
  /\ matched = <<>>
  /\ cancelledMid = FALSE
  /\ tree = Nil
  /\ limited = Nil
  /\ cargs \in RoutineInputs
  /\ cpc = "idle"
  /\ pendingPaths = <<>>
  /\ pendingMounts = {}
  /\ allItems = <<>>
  /\ collectRet = Nil
  /\ FetchIdle
  /\ MountsIdle
  /\ uiPc = "idle"
  /\ Items = <<>>
  /\ Filtered = <<>>
  /\ Query = <<>>
  /\ Cursor = 0
  /\ Offset = 0
  /\ MouseEnabled = FALSE
  /\ screenRows = 0
  /\ lastEvent = "none"
  /\ MainIdle
  /\ MonitorAt("idle")
  /\ StreamIdle
  /\ PreviewIdle
  /\ wgPc = "start"
  /\ wgErr = Nil
  /\ wgTodo = <<>>
  /\ wgLoop = "none"
  /\ itemsChan = [n |-> 0, closed |-> FALSE]
  /\ errChan = [buf |-> <<>>, closed |-> FALSE]
  /\ chanLog = <<>>
  /\ sessPc = "ui"

routineRest ==
  <<start, kv2, maxDepth, matcher, withValues, CurrentNamePart, tree, limited, collectVars,
    fetchVars, uiVars, mainVars, idleVars, streamVars, previewVars, stack, out, pc, ret, calls,
    matched, cancelledMid, mountVars>>

\* the routing at the head of the goroutine, with the mount listing of the
\* first branch
walkerStarts ==
  /\ wgPc = "start"
  /\ IF TrimSpace(cargs.startPath) = <<>> /\ Len(cargs.paths) = 0
     THEN \E r \in MountListings :
            /\ wgLoop' = "mounts"
            /\ wgErr' = r.err
            /\ wgTodo' = r.mounts
            /\ wgPc' = IF r.err # Nil THEN "sendEarly" ELSE "loop"
            /\ chanLog' = Append(chanLog, Logged("listed", r.err))
     ELSE /\ IF Len(cargs.paths) > 0
             THEN wgLoop' = "paths" /\ wgTodo' = cargs.paths
             ELSE wgLoop' = "single" /\ wgTodo' = <<cargs.startPath>>
          /\ wgPc' = "loop"
          /\ UNCHANGED <<wgErr, chanLog>>
  /\ UNCHANGED <<routineRest, ctxDone, itemsChan, errChan, sessPc>>

\* the head of the range loop: the next mount or path, a mount that is not
\* kv skipped, or the end of the loop
walkerNext ==
  /\ wgPc = "loop"
  /\ IF wgTodo = <<>>
     THEN wgPc' = "send" /\ wgTodo' = wgTodo
     ELSE /\ wgTodo' = Tail(wgTodo)
          /\ wgPc' = IF wgLoop = "mounts" /\ Head(wgTodo).Type # "kv" THEN "loop" ELSE "walk"
  /\ UNCHANGED <<routineRest, ctxDone, wgErr, wgLoop, itemsChan, errChan, chanLog, sessPc>>

\* WalkVaultStream sends an item on itemsCh
walkEmits ==
  /\ wgPc = "walk"
  /\ Cardinality(LogIdx("itemSend")) < MaxItems
  /\ IF itemsChan.closed
     THEN wgPc' = "panic" /\ UNCHANGED <<itemsChan, chanLog>>
     ELSE /\ itemsChan.n < ItemsChCap
          /\ itemsChan' = [itemsChan EXCEPT !.n = @ + 1]
          /\ chanLog' = Append(chanLog, Logged("itemSend", Nil))
          /\ wgPc' = wgPc
  /\ UNCHANGED <<routineRest, ctxDone, wgErr, wgTodo, wgLoop, errChan, sessPc>>

\* WalkVaultStream returns: an error breaks the loop
walkReturns ==
  /\ wgPc = "walk"
  /\ \E e \in {Nil} \cup RemoteErrors \cup (IF ctxDone THEN {Canceled} ELSE {}) :
       /\ chanLog' = Append(chanLog, Logged("walkRet", e))
       /\ IF e # Nil
          THEN wgErr' = e /\ wgPc' = "send"
          ELSE wgErr' = wgErr /\ wgPc' = "loop"
  /\ UNCHANGED <<routineRest, ctxDone, wgTodo, wgLoop, itemsChan, errChan, sessPc>>

\* errCh <- err: a send on a closed channel panics, a send on a full one waits
SendErr(next) ==
  IF errChan.closed
  THEN wgPc' = "panic" /\ UNCHANGED <<errChan, chanLog>>
  ELSE /\ Len(errChan.buf) < ErrChCap
       /\ errChan' = [errChan EXCEPT !.buf = Append(@, wgErr)]
       /\ chanLog' = Append(chanLog, Logged("errSend", wgErr))
       /\ wgPc' = next

\* the failed mount listing is sent and the function goes on to the loop
AfterEarlySendNoReturn == "loop"

\* `errCh <- err; return` after a failed mount listing: the deferred closes are next
AfterEarlySend == "closeErr"

walkerSendsEarly ==
  /\ wgPc = "sendEarly"
  /\ SendErr(AfterEarlySend)
  /\ UNCHANGED <<routineRest, ctxDone, wgErr, wgTodo, wgLoop, itemsChan, sessPc>>

\* the `errCh <- err` that ends the function
walkerSends ==
  /\ wgPc = "send"
  /\ SendErr("closeErr")
  /\ UNCHANGED <<routineRest, ctxDone, wgErr, wgTodo, wgLoop, itemsChan, sessPc>>

\* defer close(errCh), the deferred call that runs first
walkerClosesErr ==
  /\ wgPc = "closeErr"
  /\ IF errChan.closed
     THEN wgPc' = "panic" /\ UNCHANGED <<errChan, chanLog>>
     ELSE /\ errChan' = [errChan EXCEPT !.closed = TRUE]
          /\ chanLog' = Append(chanLog, Logged("closeErr", Nil))
          /\ wgPc' = "closeItems"
  /\ UNCHANGED <<routineRest, ctxDone, wgErr, wgTodo, wgLoop, itemsChan, sessPc>>

\* defer close(itemsCh), the deferred call that runs last
walkerClosesItems ==
  /\ wgPc = "closeItems"
  /\ IF itemsChan.closed
     THEN wgPc' = "panic" /\ UNCHANGED <<itemsChan, chanLog>>
     ELSE /\ itemsChan' = [itemsChan EXCEPT !.closed = TRUE]
          /\ chanLog' = Append(chanLog, Logged("closeItems", Nil))
          /\ wgPc' = "returned"
  /\ UNCHANGED <<routineRest, ctxDone, wgErr, wgTodo, wgLoop, errChan, sessPc>>

\* the receiver of the UI takes an item from itemsCh
uiTakesItem ==
  /\ sessPc = "ui"
  /\ itemsChan.n > 0
  /\ itemsChan' = [itemsChan EXCEPT !.n = @ - 1]
  /\ UNCHANGED <<routineRest, ctxDone, wgPc, wgErr, wgTodo, wgLoop, errChan, chanLog, sessPc>>

\* ui.RunStream returns and runInteractiveStream calls cancel()
uiReturns ==
  /\ sessPc = "ui"
  /\ sessPc' = "cancelled"
  /\ ctxDone' = TRUE
  /\ UNCHANGED <<routineRest, wgPc, wgErr, wgTodo, wgLoop, itemsChan, errChan, chanLog>>

\* select { case e := <-errCh: return e; default: return nil }
mainTakesErr ==
  /\ sessPc = "cancelled"
  /\ sessPc' = "returned"
  /\ errChan' = IF errChan.buf # <<>> THEN [errChan EXCEPT !.buf = Tail(@)] ELSE errChan
  /\ UNCHANGED <<routineRest, ctxDone, wgPc, wgErr, wgTodo, wgLoop, itemsChan, chanLog>>

NextRoutine ==
  \/ walkerStarts \/ walkerNext \/ walkEmits \/ walkReturns
  \/ walkerSendsEarly \/ walkerSends \/ walkerClosesErr \/ walkerClosesItems
  \/ uiTakesItem \/ uiReturns \/ mainTakesErr

SpecRoutine == InitRoutine /\ [][NextRoutine]_vars

(***************************************************************************)
(* C33: on every path through it the walker goroutine sends one value on   *)
(* errCh and no more, the error that ended its work or nil; the send finds *)
(* room in the channel whatever the reader does; after it the goroutine    *)
(* closes errCh and itemsCh, each once, and sends on neither afterwards.   *)
(***************************************************************************)
\* the error that ended the work: the first one a listing or a walk returned
Failures == {i \in LogIdx("listed") \cup LogIdx("walkRet") : chanLog[i].v # Nil}
FirstFailure ==
  IF Failures = {} THEN Nil
  ELSE chanLog[CHOOSE i \in Failures : \A j \in Failures : i <= j].v

SendIdx == LogIdx("errSend") \cup LogIdx("itemSend")
CloseIdx == LogIdx("closeErr") \cup LogIdx("closeItems")

C33_OneErrThenCloses ==
  /\ wgPc # "panic"
  /\ wgPc \in {"sendEarly", "send"} =>
       /\ LogIdx("errSend") = {}
       /\ Len(errChan.buf) < ErrChCap
       /\ ~errChan.closed
  /\ wgPc \in {"closeErr", "closeItems", "returned"} =>
       /\ Cardinality(LogIdx("errSend")) = 1
       /\ \A i \in LogIdx("errSend") : chanLog[i].v = FirstFailure
  /\ Cardinality(LogIdx("errSend")) <= 1
  /\ Cardinality(LogIdx("closeErr")) <= 1
  /\ Cardinality(LogIdx("closeItems")) <= 1
  /\ wgPc = "returned" =>
       /\ Cardinality(LogIdx("closeErr")) = 1
       /\ Cardinality(LogIdx("closeItems")) = 1
       /\ errChan.closed /\ itemsChan.closed
  /\ \A i \in SendIdx : \A j \in CloseIdx : i < j

\* the second of two walks failed after the first had sent an item; the
\* goroutine sent that error, closed both channels and returned
C33_Witness ==
  /\ wgPc = "returned"
  /\ Cardinality(LogIdx("walkRet")) = 2
  /\ LogIdx("itemSend") # {}
  /\ \E i \in LogIdx("errSend") : chanLog[i].v = [t |-> "err", kind |-> "permission"]

(***************************************************************************)
(* The preview of the selected item: a UI session started with or without  *)
(* a fetcher and with previews on or off, in which items arrive, the       *)
(* cursor moves, the query grows and Enter ends the session.               *)
(***************************************************************************)
InitPreview ==
  /\ start = <<>>
  /\ kv2 = FALSE
  /\ maxDepth = 0
  /\ matcher = Nil
  /\ withValues = FALSE
  /\ CurrentNamePart = <<>>
  /\ ctxDone = FALSE
  /\ stack = <<>>
  /\ out = <<>>
  /\ pc = "idle"
  /\ ret = Nil
  /\ calls = <<>>
  /\ matched = <<>>
  /\ cancelledMid = FALSE
  /\ tree = Nil
  /\ limited = Nil
  /\ CollectIdle
  /\ FetchIdle
  /\ MountsIdle
  /\ Items = <<>>
  /\ Filtered = <<>>
  /\ Query = <<>>
  /\ Cursor = 0
  /\ Offset = 0
  /\ MouseEnabled = TRUE
  /\ screenRows \in RowChoices
  /\ uiPc = "run"
  /\ lastEvent = "none"
  /\ MainIdle
  /\ MonitorAt("run")
  /\ StreamIdle
  /\ ChansIdle
  /\ PreviewCache = {}
  /\ PreviewErr = {}
  /\ PrintValues \in BOOLEAN
  /\ hasFetcher \in BOOLEAN
  /\ enterOut = Nil
  /\ fetchLog = <<>>

NextPreview ==
  \/ itemArrives \/ EventInterrupt \/ KeyUp \/ KeyDown \/ KeyRune \/ KeyEnter

SpecPreview == InitPreview /\ [][NextPreview]_vars

(***************************************************************************)
(* C35: within one UI session the fetcher is called at most once for a     *)
(* path.  A redraw that shows the preview of a selected path with previews *)
(* enabled leaves that path in the cache, with the text the fetcher        *)
(* returned for it or the message of its error; Enter on a cached path     *)
(* prints the cached text.                                                 *)
(***************************************************************************)
InCache(p) == \E e \in PreviewCache : e.k = p
TextFor(res) ==
  IF res.err = Nil THEN res.val
  ELSE [t |-> "text", of |-> "(error fetching values)", err |-> res.err]
SelectionValid == Len(Filtered) > 0 /\ Cursor >= 0 /\ Cursor < Len(Filtered)
Redrawn == lastEvent \in {"EventInterrupt", "KeyUp", "KeyDown", "KeyRune"}

C35_FetchOncePerPath ==
  /\ \A i, j \in 1..Len(fetchLog) : i # j => fetchLog[i].path # fetchLog[j].path
  /\ \A e \in PreviewCache :
       \E i \in 1..Len(fetchLog) : fetchLog[i].path = e.k /\ e.v = TextFor(fetchLog[i].res)
  /\ (uiPc = "run" /\ Redrawn /\ screenRows >= 1 /\ SelectionValid /\ PrintValues /\ hasFetcher)
       => InCache(Filtered[Cursor + 1].Path)
  /\ (uiPc = "quit" /\ lastEvent = "KeyEnter" /\ SelectionValid /\ hasFetcher)
       => \E i \in 1..Len(fetchLog) :
            /\ fetchLog[i].path = Filtered[Cursor + 1].Path
            /\ enterOut = TextFor(fetchLog[i].res)

\* two paths were previewed, the fetch for one of them failed, and Enter on
\* that one printed the cached message without another call
C35_Witness ==
  /\ uiPc = "quit" /\ lastEvent = "KeyEnter"
  /\ Len(fetchLog) = 2
  /\ \A i \in 1..Len(fetchLog) : fetchLog[i].by = "redraw"
  /\ SelectionValid
  /\ enterOut = [t |-> "text", of |-> "(error fetching values)",
                 err |-> [t |-> "err", kind |-> "permission"]]

====
